---- MODULE Spec2Model ----
(***************************************************************************)
(* Model of the file-defined event scheduler: event_engine.AEPEventEngine  *)
(* (registry, due-ness, polling loop, dispatch) together with the          *)
(* administrative operations of app.py (create, delete, activate,          *)
(* deactivate, fire-now) that run on other threads against the same        *)
(* registry and runtime maps.                                              *)
(*                                                                         *)
(* Threads of control:                                                     *)
(*   - the engine thread runs one asyncio loop; on it the run() coroutine  *)
(*     (loopPc) and one _fire_event_async coroutine (firePc) interleave at *)
(*     their await points only;                                            *)
(*   - one administrative thread (adminPc) runs create / delete /          *)
(*     activate / deactivate / stop; it is preempted between statements.   *)
(* Time is the UTC wall clock in seconds since 2024-01-01 00:00:00, a      *)
(* Monday; every datetime.now() reads a strictly later value.              *)
(***************************************************************************)
EXTENDS Integers, Sequences, FiniteSets, TLC

\* ------------------------------------------------------------------ bounds
MaxDay == 1
MaxGranules == 3
MaxLog == 2
MaxEdits == 1

\* ------------------------------------------------------- program constants
SecondsPerMinute == 60
SecondsPerHour == 60 * SecondsPerMinute
SecondsPerDay == 24 * SecondsPerHour

\* the readings of the wall clock the model lets datetime.now() return
Granule == SecondsPerMinute \div 3
Times == { k * Granule : k \in 1..MaxGranules }
         \cup { d * SecondsPerDay + Granule : d \in 1..MaxDay }

\* folder names under events/, in the order sorted() lists them
NameOrder == <<"a", "b">>
Names == { NameOrder[i] : i \in 1..Len(NameOrder) }

\* tools registered with the MCP client at boot
RegisteredTools == {"mail_send"}

VARIABLES
    folders,          \* names whose folder exists under EVENTS_DIR
    events,           \* engine.events: list of EventDef
    last_fired,       \* engine._last_fired: name -> timestamp (partial)
    cron_fired,       \* keys of engine._cron_fired_this_minute set to True
    running,          \* engine._running
    clock,            \* latest reading of the wall clock
    loopPc,           \* position of the run() coroutine
    tickNow,          \* `now` of the tick in progress
    iterList,         \* the list object the tick iterates, once delete has
                      \* rebound engine.events to a new list
    iterLive,         \* TRUE while the list the tick iterates is engine.events
    iterIdx,          \* position of the tick's for-loop (1-based)
    firePc,           \* position of the _fire_event_async coroutine
    fireName,         \* event_name argument of the fire-now coroutine
    fireEv,           \* the `ev` the fire-now coroutine is dispatching
    adminPc,          \* position of the administrative thread
    adminName,        \* argument of the administrative operation in progress
    cron_loop,        \* history, per name: minute of the latest dispatch of a cron
                      \* event by _tick and the number of such dispatches in that minute
    event_log,        \* app.event_log: the audit list, written and never read back
                      \* by the engine
    fireResult,       \* what fire_event_now has handed, or is about to hand, its caller
    observe,          \* TRUE in the runs that record the program's outputs
                      \* (event_log, the result of fire_event_now)
    duration,         \* duration_seconds argument of run(); NoCap when None
    run_start,        \* `start` of run(): the clock reading run() begins with
    scan,             \* the candidate folders load() has still to visit, with the
                      \* text of their EVENT.md
    call,             \* a call of a library function examined on its own
                      \* (NLSchedule.parse, _cron_matches, MCPClient.call_tool):
                      \* the function and its arguments
    returned          \* what that call returned or raised

vars == <<folders, events, last_fired, cron_fired, running, clock,
          loopPc, tickNow, iterList, iterLive, iterIdx, firePc, fireName, fireEv,
          adminPc, adminName, cron_loop, event_log, fireResult, observe,
          duration, run_start, scan, call, returned>>

\* ------------------------------------------------------------ wall clock
\* datetime fields of a clock reading (base 2024-01-01 00:00:00 UTC, a Monday;
\* the model stays inside January)
Minute(t)  == (t \div SecondsPerMinute) % 60
Hour(t)    == (t \div SecondsPerHour) % 24
Day(t)     == 1 + (t \div SecondsPerDay)
Month(t)   == 1
Weekday(t) == (t \div SecondsPerDay) % 7

\* now.strftime("%Y%m%d%H%M"): one key per wall-clock minute
MinuteKey(t) == t \div SecondsPerMinute

\* ------------------------------------------------------- cron evaluator
\* A cron field is a comma list of parts; a part is one of
\*   [t |-> "step",  a |-> base (-1 for *), b |-> step]      base/step
\*   [t |-> "range", a |-> lo, b |-> hi]                     a-b
\*   [t |-> "star",  a |-> 0, b |-> 0]                       *
\*   [t |-> "num",   a |-> v, b |-> 0]                       v
Star   == [t |-> "star", a |-> 0, b |-> 0]
Num(v) == [t |-> "num", a |-> v, b |-> 0]

\* a field reader whose range a-b leaves out b
ParseCronPartOpenRange(part, lo, hi) ==
    IF part.t = "step"
    THEN LET start == IF part.a = -1 THEN lo ELSE part.a
         IN  { x \in start..hi : (x - start) % part.b = 0 }
    ELSE IF part.t = "range" THEN part.a .. (part.b - 1)
    ELSE IF part.t = "star" THEN lo..hi
    ELSE { part.a }

ParseCronPart(part, lo, hi) ==
    IF part.t = "step"
    THEN LET start == IF part.a = -1 THEN lo ELSE part.a
         IN  { x \in start..hi : (x - start) % part.b = 0 }
    ELSE IF part.t = "range" THEN part.a .. part.b
    ELSE IF part.t = "star" THEN lo..hi
    ELSE { part.a }

ParseCronField(s, lo, hi) ==
    UNION { ParseCronPart(s[i], lo, hi) : i \in 1..Len(s) }

CronMatches(cron, t) ==
    LET mins   == ParseCronField(cron[1], 0, 59)
        hrs    == ParseCronField(cron[2], 0, 23)
        doms   == ParseCronField(cron[3], 1, 31)
        months == ParseCronField(cron[4], 1, 12)
        dows   == ParseCronField(cron[5], 0, 6)
        cron_dow == (Weekday(t) + 1) % 7
    IN  /\ Minute(t) \in mins
        /\ Hour(t) \in hrs
        /\ Day(t) \in doms
        /\ Month(t) \in months
        /\ cron_dow \in dows

\* ------------------------------------------------- manifests (inputs)
\* compiled schedules: "every 40 seconds", "every day at 12 AM", none
IntervalSched == [kind |-> "interval", seconds |-> 2 * Granule, cron |-> <<>>]
CronSched     == [kind |-> "cron", seconds |-> 0,
                  cron |-> << <<Num(0)>>, <<Num(0)>>, <<Star>>, <<Star>>, <<Star>> >>]
NoSched       == [kind |-> "none", seconds |-> 0, cron |-> <<>>]

McpAction(tool) == [kind |-> "mcp", target |-> tool]
ScriptAction    == [kind |-> "script", target |-> "scripts/run.py"]

Manifest(type, sched, action) ==
    [event_type |-> type, schedule |-> sched, action |-> action]

\* what a folder on disk at boot can hold
LoadableManifests ==
    { Manifest("scheduled", IntervalSched, McpAction("mail_send")),
      Manifest("scheduled", CronSched, McpAction("mail_send")),
      Manifest("scheduled", IntervalSched, McpAction("nope")),
      Manifest("scheduled", IntervalSched, ScriptAction),
      Manifest("manual", NoSched, McpAction("mail_send")) }

\* the create commands the front end submits: <<name, manifest written>>;
\* create_event_on_disk writes type scheduled and an mcp action
CreateCommands ==
    { <<NameOrder[1], Manifest("scheduled", CronSched, McpAction("mail_send"))>>,
      <<NameOrder[2], Manifest("scheduled", IntervalSched, McpAction("mail_send"))>> }

NoFolder == [event_type |-> "absent", schedule |-> NoSched, action |-> McpAction("")]

\* EventDef built by parse_event_md; active defaults to False
EventDef(n, m) ==
    [name |-> n, event_type |-> m.event_type, schedule |-> m.schedule,
     action |-> m.action, active |-> FALSE]

\* no EventDef
NoEvent == [name |-> "", event_type |-> "none", schedule |-> NoSched,
            action |-> McpAction(""), active |-> FALSE]

\* no library call is under examination
NoCall == [fn |-> "none"]
NoReturn == [done |-> FALSE]

\* ------------------------------------------------------- dict helpers
Put(f, k, v) == [x \in (DOMAIN f) \cup {k} |-> IF x = k THEN v ELSE f[x]]
EmptyDict    == [x \in {} |-> 0]

\* index in engine.events of the first event carrying the name; 0: none
FirstIndex(n) ==
    LET hits == { i \in 1..Len(events) : events[i].name = n }
    IN  IF hits = {} THEN 0 ELSE CHOOSE i \in hits : \A j \in hits : i <= j

\* --------------------------------------------------------------- is_due
\* a due-ness test that needs more than the interval to have elapsed
IntervalDueStrict(has_last, last, now, seconds) ==
    IF ~has_last THEN TRUE ELSE now - last > seconds

IntervalDue(has_last, last, now, seconds) ==
    IF ~has_last THEN TRUE ELSE now - last >= seconds

\* a due-ness test that ignores the minute bucket
CronDueUnbucketed(fired, cron, now) == CronMatches(cron, now)

CronDue(fired, cron, now) ==
    IF fired THEN FALSE ELSE CronMatches(cron, now)

\* a due-ness test without the guard on event_type and schedule: an event
\* that has no schedule is taken as due at every tick
IsDueUnguarded(ev, now) ==
    IF ev.schedule.kind = "interval"
    THEN IntervalDue(ev.name \in DOMAIN last_fired,
                     IF ev.name \in DOMAIN last_fired THEN last_fired[ev.name] ELSE 0,
                     now, ev.schedule.seconds)
    ELSE IF ev.schedule.kind = "cron"
    THEN CronDue(<<ev.name, MinuteKey(now)>> \in cron_fired, ev.schedule.cron, now)
    ELSE TRUE

\* a due-ness test with a warm-up delay: an Interval event that never fired
\* is not due before one interval has passed
IsDueWarmUp(ev, now) ==
    /\ ev.event_type = "scheduled"
    /\ ev.schedule.kind = "interval"
    /\ IF ev.name \in DOMAIN last_fired
       THEN now - last_fired[ev.name] >= ev.schedule.seconds
       ELSE now >= ev.schedule.seconds

\* a due-ness test that keeps no history: an Interval event is due at every
\* tick
IsDueEveryTick(ev, now) ==
    /\ ev.event_type = "scheduled"
    /\ ev.schedule.kind = "interval"

\* a due-ness test under which a firing recorded in last_fired for the
\* minute of `now`, whoever made it, keeps a Cron event from being due
IsDueOncePerMinute(ev, now) ==
    IF ev.event_type # "scheduled" \/ ev.schedule.kind = "none" THEN FALSE
    ELSE IF ev.schedule.kind = "interval"
    THEN IntervalDue(ev.name \in DOMAIN last_fired,
                     IF ev.name \in DOMAIN last_fired THEN last_fired[ev.name] ELSE 0,
                     now, ev.schedule.seconds)
    ELSE /\ ~(ev.name \in DOMAIN last_fired
               /\ MinuteKey(last_fired[ev.name]) = MinuteKey(now))
         /\ CronDue(<<ev.name, MinuteKey(now)>> \in cron_fired, ev.schedule.cron, now)

IsDue(ev, now) ==
    IF ev.event_type # "scheduled" \/ ev.schedule.kind = "none" THEN FALSE
    ELSE IF ev.schedule.kind = "interval"
    THEN IntervalDue(ev.name \in DOMAIN last_fired,
                     IF ev.name \in DOMAIN last_fired THEN last_fired[ev.name] ELSE 0,
                     now, ev.schedule.seconds)
    ELSE IF ev.schedule.kind = "cron"
    THEN CronDue(<<ev.name, MinuteKey(now)>> \in cron_fired, ev.schedule.cron, now)
    ELSE FALSE

\* side effect of _is_due: the cache key set when a cron event is found due
CronMark(ev, now) ==
    IF ev.schedule.kind = "cron" THEN cron_fired \cup { <<ev.name, MinuteKey(now)>> }
    ELSE cron_fired

\* a tick that fires every due event, active or not
ShouldFireAnyState(ev, now) == IsDue(ev, now)

\* a tick for which the first tick of a minute settles the minute of a Cron
\* event, active or not: later ticks of that minute pass over it
ShouldFireAtMinuteStart(ev, now) ==
    /\ ev.active
    /\ IsDue(ev, now)
    /\ ev.schedule.kind = "cron" => now - MinuteKey(now) * SecondsPerMinute <= Granule

\* _tick: `if ev.active and self._is_due(ev, now)`
ShouldFire(ev, now) == ev.active /\ IsDue(ev, now)

\* a tick that stamps the time read when the dispatch begins
StampFiringAtClock(lf, n, now) == Put(lf, n, clock)

\* a tick that does not stamp before it dispatches
StampFiringLate(lf, n, now) == lf

\* _tick: self._last_fired[ev.name] = now, before the dispatch is awaited
StampFiring(lf, n, now) == Put(lf, n, now)

\* ------------------------------------------------------------- _dispatch
\* what `await self._dispatch(ev)` does up to its first suspension or its end
SyncOutcomes(ev) ==
    IF ev.action.kind = "mcp"
    THEN IF ev.action.target \in RegisteredTools
         THEN {"ok", "handler_error", "suspend"}
         ELSE {"tool_not_found"}
    ELSE IF ev.action.kind = "script"
    THEN {"script_not_found", "no_handle", "ok", "suspend", "script_error"}
    ELSE {"no_action"}

\* how a suspended dispatch ends
ResumeOutcomes(ev) ==
    IF ev.action.kind = "mcp" THEN {"ok", "handler_error"}
    ELSE {"ok", "script_error"}

\* a dispatch whose mcp branch has no exception handler either
PropagatesToolErrors(o) == o \in {"script_error", "tool_not_found", "handler_error"}

\* outcomes that leave _dispatch as an exception: the mcp branch catches
\* Exception, the script branch has no handler
Propagates(o) == o = "script_error"

\* a dispatch that activates the event it has run
AfterDispatchActivating(list, ev, o) ==
    [i \in 1..Len(list) |->
        IF list[i].name = ev.name THEN [list[i] EXCEPT !.active = TRUE] ELSE list[i]]

\* a dispatch that deactivates the event it failed to run
AfterDispatchDeactivating(list, ev, o) ==
    IF o \in {"tool_not_found", "handler_error", "script_not_found", "no_handle"}
    THEN [i \in 1..Len(list) |->
            IF list[i].name = ev.name THEN [list[i] EXCEPT !.active = FALSE] ELSE list[i]]
    ELSE list

\* what _dispatch does to the registry, whatever the outcome: it only prints
AfterDispatch(list, ev, o) == list

\* ------------------------------------------------------------------ Init
\* state after _boot_engine(): load() has appended one EventDef per folder in
\* sorted order, run() has not started
Loaded(disk) ==
    LET order == SelectSeq(NameOrder, LAMBDA n : disk[n] # NoFolder)
    IN  [i \in 1..Len(order) |-> EventDef(order[i], disk[order[i]])]

\* folders present at boot: the first name holds any loadable manifest or is
\* absent, the other names are created later
BootLayouts ==
    { disk \in [Names -> LoadableManifests \cup {NoFolder}] :
        \A i \in 2..Len(NameOrder) : disk[NameOrder[i]] = NoFolder }

\* run() called without duration_seconds
NoCap == 0

BootOf(layouts, obs, caps) ==
    \E disk \in layouts :
        /\ folders = { n \in Names : disk[n] # NoFolder }
        /\ events = Loaded(disk)
        /\ last_fired = EmptyDict
        /\ cron_fired = {}
        /\ running = FALSE
        /\ clock = 0
        /\ loopPc = "init"
        /\ tickNow = 0
        /\ iterList = <<>>
        /\ iterLive = FALSE
        /\ iterIdx = 0
        /\ firePc = "none"
        /\ fireName = ""
        /\ fireEv = NoEvent
        /\ adminPc = "idle"
        /\ adminName = ""
        /\ cron_loop = EmptyDict
        /\ event_log = <<>>
        /\ fireResult = "none"
        /\ observe = obs
        /\ duration \in caps
        /\ run_start = 0
        /\ scan = <<>>
        /\ call = NoCall
        /\ returned = NoReturn

\* _boot_engine() over the folders of BootLayouts
Boot(obs, caps) == BootOf(BootLayouts, obs, caps)

\* the booted application; its outputs are not recorded
Init == Boot(FALSE, {NoCap})

\* ------------------------------------------------------- polling loop
loopVars == <<loopPc, tickNow, iterList, iterLive, iterIdx>>
fireVars == <<firePc, fireName, fireEv>>
adminVars == <<adminPc, adminName>>
outVars == <<event_log, fireResult, observe>>

\* one record of event_log
LogEntry(n, action, status) == [event |-> n, action |-> action, status |-> status]

\* event_log.append(...) for each entry of `es`
Log(es) ==
    /\ observe => Len(event_log) + Len(es) <= MaxLog
    /\ event_log' = IF observe THEN event_log \o es ELSE event_log

\* what a dispatch that ended with outcome `o` has appended to event_log: only
\* the mail tool appends, once per call that returns
DispatchLog(ev, o) ==
    IF o = "ok" /\ ev.action.kind = "mcp"
    THEN << LogEntry(ev.name, "mail_send", "sent") >>
    ELSE << >>

\* the coroutine's result reaches the caller of fire_event_now, if it still waits
Deliver(r) ==
    fireResult' = IF observe /\ fireResult = "waiting" THEN r ELSE fireResult

\* An entry of the list object a tick keeps iterating after delete rebound
\* engine.events: an EventDef that is still in engine.events is the same
\* object there (entry by name), one that was removed keeps its own fields.
\*   attached: [name |-> ev.name, detached |-> FALSE, ev |-> NoEvent]
\*   detached: [name |-> ev.name, detached |-> TRUE, ev |-> ev]

\* length of the list the tick's for-loop iterates
CurLen == IF iterLive THEN Len(events) ELSE Len(iterList)

\* the EventDef at the for-loop's position
CurEv ==
    IF iterLive THEN events[iterIdx]
    ELSE IF iterList[iterIdx].detached THEN iterList[iterIdx].ev
    ELSE events[FirstIndex(iterList[iterIdx].name)]

\* a run() that leaves the flag as it is when stop() was called before it
RunStartHonouringStop ==
    /\ loopPc = "init"
    /\ running' = (call.fn # "stop")
    /\ loopPc' = "top"
    /\ run_start' = clock
    /\ UNCHANGED <<folders, events, last_fired, cron_fired, clock, tickNow,
                   iterList, iterLive, iterIdx, firePc, fireName, fireEv,
                   adminPc, adminName, cron_loop, event_log, fireResult, observe,
                   duration, scan, call, returned>>

\* run(): self._running = True
RunStart ==
    /\ loopPc = "init"
    /\ running' = TRUE
    /\ loopPc' = "top"
    /\ UNCHANGED <<folders, events, last_fired, cron_fired, clock, tickNow,
                   iterList, iterLive, iterIdx, fireVars, adminVars, cron_loop>>
    /\ run_start' = clock
    /\ UNCHANGED <<outVars, duration, scan, call, returned>>

\* a loop that does not look at the stop flag
LoopConditionForever == TRUE

\* `while self._running`
LoopCondition == running

\* a loop that starts its ticks as tasks of their own instead of awaiting them
TickMayBeginAnytime == loopPc \in {"top", "sleep", "dispatch"}

\* run() awaits _tick() and then the sleep: the while test is reached only
\* when the previous tick has returned
TickMayBegin == loopPc \in {"top", "sleep"}

\* while self._running: _tick() begins, now = datetime.now(); after a sleep
\* under a duration cap the elapsed time is looked at first (DurationCheck)
TickStart ==
    /\ TickMayBegin
    /\ loopPc = "sleep" => duration = NoCap
    /\ LoopCondition
    /\ \E t \in Times :
        /\ t > clock
        /\ clock' = t
        /\ tickNow' = t
    /\ loopPc' = "iter"
    /\ iterLive' = TRUE
    /\ iterList' = <<>>
    /\ iterIdx' = 1
    /\ UNCHANGED <<folders, events, last_fired, cron_fired, running,
                   fireVars, adminVars, cron_loop>>
    /\ UNCHANGED <<outVars, duration, run_start, scan, call, returned>>

\* while self._running: the flag is found False, run() returns
LoopExit ==
    /\ loopPc \in {"top", "sleep"}
    /\ ~LoopCondition
    /\ loopPc' = "stopped"
    /\ UNCHANGED <<folders, events, last_fired, cron_fired, running, clock,
                   tickNow, iterList, iterLive, iterIdx, fireVars, adminVars,
                   cron_loop>>
    /\ UNCHANGED <<outVars, duration, run_start, scan, call, returned>>

\* a cap that is compared with > instead of >=
ElapsedStrict(now) == now - run_start > duration

\* elapsed >= duration_seconds
Elapsed(now) == now - run_start >= duration

\* after the sleep, under a duration cap: elapsed is computed from a fresh
\* datetime.now(); break when the cap is reached, else back to the while test
DurationCheck ==
    /\ loopPc = "sleep"
    /\ duration # NoCap
    /\ \E t \in Times :
        /\ t > clock
        /\ clock' = t
        /\ loopPc' = IF Elapsed(t) THEN "stopped" ELSE "top"
    /\ UNCHANGED <<folders, events, last_fired, cron_fired, running,
                   tickNow, iterList, iterLive, iterIdx, fireVars, adminVars,
                   cron_loop, outVars, duration, run_start, scan, call, returned>>

\* _tick: the current event is not active or not due
TickSkip ==
    /\ loopPc = "iter"
    /\ iterIdx <= CurLen
    /\ ~ShouldFire(CurEv, tickNow)
    /\ iterIdx' = iterIdx + 1
    /\ UNCHANGED <<folders, events, last_fired, cron_fired, running, clock,
                   loopPc, tickNow, iterList, iterLive, fireVars, adminVars,
                   cron_loop>>
    /\ UNCHANGED <<outVars, duration, run_start, scan, call, returned>>

\* an exception leaves _tick and run(): the coroutine and its frame are gone
Crash ==
    /\ loopPc' = "crashed"
    /\ tickNow' = 0
    /\ iterList' = <<>>
    /\ iterLive' = FALSE
    /\ iterIdx' = 0

\* history update for a dispatch of `ev` by the tick of time `now`
CronCount(ev, now) ==
    IF ev.schedule.kind # "cron" THEN cron_loop
    ELSE IF ev.name \in DOMAIN cron_loop /\ cron_loop[ev.name].minute = MinuteKey(now)
    THEN Put(cron_loop, ev.name,
             [minute |-> MinuteKey(now), count |-> cron_loop[ev.name].count + 1])
    ELSE Put(cron_loop, ev.name, [minute |-> MinuteKey(now), count |-> 1])

\* _tick: the current event is active and due: mark, stamp, dispatch
TickFire ==
    /\ loopPc = "iter"
    /\ iterIdx <= CurLen
    /\ ShouldFire(CurEv, tickNow)
    /\ cron_fired' = CronMark(CurEv, tickNow)
    /\ last_fired' = StampFiring(last_fired, CurEv.name, tickNow)
    /\ cron_loop' = CronCount(CurEv, tickNow)
    /\ \E o \in SyncOutcomes(CurEv) :
        /\ events' = AfterDispatch(events, CurEv, o)
        /\ Log(DispatchLog(CurEv, o))
        /\ IF o = "suspend"
           THEN /\ loopPc' = "dispatch"
                /\ UNCHANGED <<tickNow, iterList, iterLive, iterIdx>>
           ELSE IF Propagates(o)
           THEN Crash
           ELSE /\ loopPc' = "iter"
                /\ iterIdx' = iterIdx + 1
                /\ UNCHANGED <<tickNow, iterList, iterLive>>
    /\ UNCHANGED <<folders, running, clock, fireVars, adminVars,
                   fireResult, observe, duration, run_start, scan, call, returned>>

\* the suspended dispatch of the tick ends
TickResume ==
    /\ loopPc = "dispatch"
    /\ \E o \in ResumeOutcomes(CurEv) :
        /\ events' = AfterDispatch(events, CurEv, o)
        /\ Log(DispatchLog(CurEv, o))
        /\ IF Propagates(o)
           THEN Crash
           ELSE /\ loopPc' = "iter"
                /\ iterIdx' = iterIdx + 1
                /\ UNCHANGED <<tickNow, iterList, iterLive>>
    /\ UNCHANGED <<folders, last_fired, cron_fired, running, clock,
                   fireVars, adminVars, cron_loop, fireResult,
                   observe, duration, run_start, scan, call, returned>>

\* the for-loop is exhausted: _tick returns, run() awaits asyncio.sleep(TICK)
TickEnd ==
    /\ loopPc = "iter"
    /\ iterIdx > CurLen
    /\ loopPc' = "sleep"
    /\ tickNow' = 0
    /\ iterList' = <<>>
    /\ iterLive' = FALSE
    /\ iterIdx' = 0
    /\ UNCHANGED <<folders, events, last_fired, cron_fired, running, clock,
                   fireVars, adminVars, cron_loop>>
    /\ UNCHANGED <<outVars, duration, run_start, scan, call, returned>>

\* engine.stop()
Stop ==
    /\ adminPc = "idle"
    /\ running
    /\ running' = FALSE
    /\ UNCHANGED <<folders, events, last_fired, cron_fired, clock, loopVars,
                   fireVars, adminVars, cron_loop>>
    /\ UNCHANGED <<outVars, duration, run_start, scan, call, returned>>

\* ----------------------------------------------------------- fire-now
\* a bridge that submits the coroutine without asking whether the loop runs
LoopIsRunningUnchecked == TRUE

\* engine_loop.is_running(): run_until_complete(engine.run()) is executing
LoopIsRunning == loopPc \in {"top", "iter", "dispatch", "sleep"}

\* the engine thread executes no coroutine: run() is suspended in an await
LoopThreadIdle == loopPc \in {"sleep", "dispatch"}

\* the fields of `ev` the fire-now coroutine still uses after its lookup
Held(ev) == [ev EXCEPT !.active = FALSE]

\* fire_event_now: run_coroutine_threadsafe(_fire_event_async(name), engine_loop)
FireRequest(n) ==
    /\ firePc = "none"
    /\ LoopIsRunning
    /\ firePc' = "queued"
    /\ fireName' = n
    /\ fireEv' = NoEvent
    /\ fireResult' = IF observe THEN "waiting" ELSE fireResult
    /\ UNCHANGED <<folders, events, last_fired, cron_fired, running, clock,
                   loopVars, adminVars, cron_loop, event_log,
                   observe, duration, run_start, scan, call, returned>>

\* a manual firing that stores the time read before its dispatch
FireStampStale(n) ==
    \E t \in Times :
        /\ t > clock
        /\ clock' = t
        /\ last_fired' = Put(last_fired, n, clock)

\* _fire_event_async: engine._last_fired[ev.name] = datetime.now(), return
FireStamp(n) ==
    \E t \in Times :
        /\ t > clock
        /\ clock' = t
        /\ last_fired' = Put(last_fired, n, t)

\* _fire_event_async starts on the loop: no event carries the name
FireNotFound ==
    /\ firePc = "queued"
    /\ LoopThreadIdle
    /\ FirstIndex(fireName) = 0
    /\ firePc' = "none"
    /\ fireName' = ""
    /\ fireEv' = NoEvent
    /\ Deliver("not_found")
    /\ UNCHANGED <<folders, events, last_fired, cron_fired, running, clock,
                   loopVars, adminVars, cron_loop, event_log,
                   observe, duration, run_start, scan, call, returned>>

\* _fire_event_async starts on the loop: the first event of that name is dispatched
FireStart ==
    /\ firePc = "queued"
    /\ LoopThreadIdle
    /\ FirstIndex(fireName) # 0
    /\ LET ev == events[FirstIndex(fireName)]
       IN  \E o \in SyncOutcomes(ev) :
            /\ events' = AfterDispatch(events, ev, o)
            /\ Log(DispatchLog(ev, o))
            /\ IF o = "suspend"
               THEN /\ firePc' = "dispatch"
                    /\ fireEv' = Held(ev)
                    /\ fireName' = fireName
                    /\ UNCHANGED <<last_fired, clock, fireResult>>
               ELSE IF Propagates(o)
               THEN /\ firePc' = "none"
                    /\ fireEv' = NoEvent
                    /\ fireName' = ""
                    /\ Deliver("error")
                    /\ UNCHANGED <<last_fired, clock>>
               ELSE /\ firePc' = "none"
                    /\ fireEv' = NoEvent
                    /\ fireName' = ""
                    /\ Deliver("fired")
                    /\ FireStamp(ev.name)
    /\ UNCHANGED <<folders, cron_fired, running, loopVars, adminVars, cron_loop,
                   observe, duration, run_start, scan, call, returned>>

\* the suspended dispatch of the fire-now coroutine ends
FireResume ==
    /\ firePc = "dispatch"
    /\ LoopThreadIdle
    /\ \E o \in ResumeOutcomes(fireEv) :
        /\ events' = AfterDispatch(events, fireEv, o)
        /\ Log(DispatchLog(fireEv, o))
        /\ IF Propagates(o)
           THEN /\ Deliver("error")
                /\ UNCHANGED <<last_fired, clock>>
           ELSE /\ Deliver("fired")
                /\ FireStamp(fireEv.name)
    /\ firePc' = "none"
    /\ fireEv' = NoEvent
    /\ fireName' = ""
    /\ UNCHANGED <<folders, cron_fired, running, loopVars, adminVars, cron_loop,
                   observe, duration, run_start, scan, call, returned>>

\* ---------------------------------------------- administrative thread
\* an operation that flips the flag instead of setting it
SetActiveToggle(list, n, flag) == [list EXCEPT ![FirstIndex(n)].active = ~@]

\* an operation that sets the flag of every event carrying the name
SetActiveAll(list, n, flag) ==
    [i \in 1..Len(list) |->
        IF list[i].name = n THEN [list[i] EXCEPT !.active = flag] ELSE list[i]]

\* `for ev in engine.events: if ev.name == event_name: ev.active = flag`
SetActive(list, n, flag) == [list EXCEPT ![FirstIndex(n)].active = flag]

\* activate_event
Activate(n) ==
    /\ adminPc = "idle"
    /\ FirstIndex(n) # 0
    /\ events' = SetActive(events, n, TRUE)
    /\ Log(<< LogEntry(n, "activated", "activated") >>)
    /\ UNCHANGED <<folders, last_fired, cron_fired, running, clock,
                   loopVars, fireVars, adminVars, cron_loop, fireResult,
                   observe, duration, run_start, scan, call, returned>>

\* deactivate_event
Deactivate(n) ==
    /\ adminPc = "idle"
    /\ FirstIndex(n) # 0
    /\ events' = SetActive(events, n, FALSE)
    /\ Log(<< LogEntry(n, "deactivated", "deactivated") >>)
    /\ UNCHANGED <<folders, last_fired, cron_fired, running, clock,
                   loopVars, fireVars, adminVars, cron_loop, fireResult,
                   observe, duration, run_start, scan, call, returned>>

\* create_event_on_disk: folder written, parse_event_md, engine.events.append
Create(n, m) ==
    /\ adminPc = "idle"
    /\ n \notin folders
    /\ folders' = folders \cup {n}
    /\ events' = Append(events, EventDef(n, m))
    /\ Log(<< LogEntry(n, "created", "created") >>)
    /\ UNCHANGED <<last_fired, cron_fired, running, clock, loopVars, fireVars,
                   adminVars, cron_loop, fireResult, observe, duration, run_start, scan, call, returned>>

\* the list object a tick in progress keeps iterating once delete has
\* rebound engine.events
OldList(n) ==
    LET Attached(ev) == [name |-> ev.name, detached |-> FALSE, ev |-> NoEvent]
        Detached(ev) == [name |-> ev.name, detached |-> TRUE, ev |-> ev]
    IN
    IF iterLive
    THEN [i \in 1..Len(events) |->
            IF events[i].name = n THEN Detached(events[i]) ELSE Attached(events[i])]
    ELSE [i \in 1..Len(iterList) |->
            IF ~iterList[i].detached /\ iterList[i].name = n
            THEN Detached(events[FirstIndex(n)])
            ELSE iterList[i]]

\* delete_event: the folder exists; engine.events = [... if ev.name != name]
DeleteFilter(n) ==
    /\ adminPc = "idle"
    /\ n \in folders
    /\ events' = SelectSeq(events, LAMBDA ev : ev.name # n)
    /\ iterList' = OldList(n)
    /\ iterLive' = FALSE
    /\ adminPc' = "del_purge"
    /\ adminName' = n
    /\ UNCHANGED <<folders, last_fired, cron_fired, running, clock, loopPc,
                   tickNow, iterIdx, fireVars, cron_loop>>
    /\ UNCHANGED <<outVars, duration, run_start, scan, call, returned>>

\* delete_event: if name in engine._last_fired: del engine._last_fired[name];
\* shutil.rmtree(event_dir); return success
DeleteReturn ==
    /\ adminPc = "del_purge"
    /\ last_fired' = [x \in (DOMAIN last_fired) \ {adminName} |-> last_fired[x]]
    /\ folders' = folders \ {adminName}
    /\ adminPc' = "idle"
    /\ adminName' = ""
    /\ Log(<< LogEntry(adminName, "deleted", "deleted") >>)
    /\ UNCHANGED <<events, cron_fired, running, clock, loopVars,
                   fireVars, cron_loop, fireResult, observe, duration, run_start, scan, call, returned>>

\* ------------------------------------------------------- specification
Next ==
    \/ RunStart
    \/ TickStart
    \/ TickSkip
    \/ TickFire
    \/ TickResume
    \/ TickEnd
    \/ \E n \in Names : FireRequest(n)
    \/ FireNotFound
    \/ FireStart
    \/ FireResume
    \/ \E n \in Names : Activate(n)
    \/ \E n \in Names : Deactivate(n)
    \/ \E c \in CreateCommands : Create(c[1], c[2])
    \/ \E n \in Names : DeleteFilter(n)
    \/ DeleteReturn

\* app.py never calls engine.stop(): the booted application runs Next
Spec == Init /\ [][Next]_vars

\* fire_event_now while engine_loop is not running: nothing is submitted, the
\* caller gets "Engine loop not running."
FireRefused(n) ==
    /\ firePc = "none"
    /\ ~LoopIsRunning
    /\ fireResult' = IF observe THEN "not_running" ELSE fireResult
    /\ UNCHANGED <<folders, events, last_fired, cron_fired, running, clock,
                   loopVars, fireVars, adminVars, cron_loop, event_log,
                   observe, duration, run_start, scan, call, returned>>

\* future.result(timeout=10) raises TimeoutError in the caller; the coroutine
\* submitted to the loop is not cancelled
FireTimeout ==
    /\ fireResult = "waiting"
    /\ firePc \in {"queued", "dispatch"}
    /\ fireResult' = "timeout"
    /\ UNCHANGED <<folders, events, last_fired, cron_fired, running, clock,
                   loopVars, fireVars, adminVars, cron_loop, event_log,
                   observe, duration, run_start, scan, call, returned>>

\* the application with the callers of fire_event_now observed
NextAudit ==
    \/ Next
    \/ \E n \in Names : FireRefused(n)
    \/ FireTimeout

\* the booted application with its outputs recorded
SpecAudit == Boot(TRUE, {NoCap}) /\ [][NextAudit]_vars

\* ------------------------------------------------------ NLSchedule.parse
\* A schedule text is the sequence of its whitespace-separated pieces, in
\* lower case (the patterns are matched with re.IGNORECASE, between pieces
\* they ask for \s+ or \s*, and the text is stripped first):
\*   W(s)  a word
\*   N(v)  a run of digits, by its value
\*   M(v)  `:` and two digits, directly after a run of digits
W(s) == [k |-> "word", v |-> 0, s |-> s]
N(v) == [k |-> "num", v |-> v, s |-> ""]
M(v) == [k |-> "min", v |-> v, s |-> ""]

\* NLSchedule._DOW
DowNames == <<"sunday", "monday", "tuesday", "wednesday", "thursday",
              "friday", "saturday">>
IsDow(tok) == tok.k = "word" /\ \E i \in 1..7 : DowNames[i] = tok.s
DowNumber(tok) == (CHOOSE i \in 1..7 : DowNames[i] = tok.s) - 1

\* (seconds?|minutes?|hours?) and the factor of unit.rstrip("s")
UnitWords == {"second", "seconds", "minute", "minutes", "hour", "hours"}
UnitSeconds(u) ==
    IF u \in {"second", "seconds"} THEN 1
    ELSE IF u \in {"minute", "minutes"} THEN SecondsPerMinute
    ELSE SecondsPerHour

\* re.sub: midnight -> 12 AM, noon -> 12 PM
RECURSIVE Synonyms(_)
Synonyms(toks) ==
    IF toks = << >> THEN << >>
    ELSE (IF Head(toks) = W("midnight") THEN << N(12), W("am") >>
          ELSE IF Head(toks) = W("noon") THEN << N(12), W("pm") >>
          ELSE << Head(toks) >>) \o Synonyms(Tail(toks))

\* _to24
To24(h, m, ampm) ==
    [h |-> IF ampm = "pm" /\ h # 12 THEN h + 12
           ELSE IF ampm = "am" /\ h = 12 THEN 0
           ELSE h,
     m |-> m]

IsAmPm(tok) == tok.k = "word" /\ tok.s \in {"am", "pm"}

\* (\d{1,2})(?::(\d{2}))?\s*(am|pm)?$ on the pieces that follow `at`
IsTime(ts) ==
    /\ Len(ts) \in 1..3
    /\ ts[1].k = "num" /\ ts[1].v <= 99
    /\ Len(ts) = 2 => (ts[2].k = "min" \/ IsAmPm(ts[2]))
    /\ Len(ts) = 3 => (ts[2].k = "min" /\ IsAmPm(ts[3]))

\* _to24(int(group h), int(group mm or 0), group ampm)
TimeOf(ts) ==
    To24(ts[1].v,
         IF Len(ts) >= 2 /\ ts[2].k = "min" THEN ts[2].v ELSE 0,
         IF IsAmPm(ts[Len(ts)]) THEN ts[Len(ts)].s ELSE "")

\* position of the first `at`; 0: none
AtIndex(toks) ==
    LET hits == { i \in 1..Len(toks) : toks[i] = W("at") }
    IN  IF hits = {} THEN 0 ELSE CHOOSE i \in hits : \A j \in hits : i <= j

\* the pieces after the first `at`
AfterAt(toks) == SubSeq(toks, AtIndex(toks) + 1, Len(toks))

\* (?:\s*,?\s*(?:and\s+)?<dow>)*
RECURSIVE IsDowTail(_)
IsDowTail(ws) ==
    \/ ws = << >>
    \/ LET r1 == IF Head(ws) = W(",") THEN Tail(ws) ELSE ws
           r2 == IF r1 # << >> /\ Head(r1) = W("and") THEN Tail(r1) ELSE r1
       IN  r2 # << >> /\ IsDow(Head(r2)) /\ IsDowTail(Tail(r2))

\* every\s+(\d+)\s+(seconds?|minutes?|hours?), matched at the start of the
\* text: the pattern has no `$`
MatchInterval(toks) ==
    /\ Len(toks) >= 3
    /\ toks[1] = W("every")
    /\ toks[2].k = "num"
    /\ toks[3].k = "word" /\ toks[3].s \in UnitWords

\* every\s+hour$
MatchEveryHour(toks) == toks = << W("every"), W("hour") >>

\* every\s+<dow>\s+at\s+<time>$
MatchDow(toks) ==
    /\ Len(toks) >= 4
    /\ toks[1] = W("every")
    /\ IsDow(toks[2])
    /\ toks[3] = W("at")
    /\ IsTime(AfterAt(toks))

\* every\s+day\s+at\s+<time>$
MatchEveryDay(toks) ==
    /\ Len(toks) >= 4
    /\ toks[1] = W("every")
    /\ toks[2] = W("day")
    /\ toks[3] = W("at")
    /\ IsTime(AfterAt(toks))

\* every\s+<dow>(<sep><dow>)*\s+at\s+<time>$
MatchDowList(toks) ==
    /\ AtIndex(toks) >= 3
    /\ toks[1] = W("every")
    /\ IsDow(toks[2])
    /\ IsDowTail(SubSeq(toks, 3, AtIndex(toks) - 1))
    /\ IsTime(AfterAt(toks))

\* (?:on\s+the\s+)?first\s+day\s+of\s+(?:every\s+)?month\s+at\s+<time>$
MatchFirstDay(toks) ==
    /\ AtIndex(toks) # 0
    /\ SubSeq(toks, 1, AtIndex(toks) - 1) \in
          { pre \o << W("first"), W("day"), W("of") >> \o mid \o << W("month") >> :
              pre \in { << >>, << W("on"), W("the") >> },
              mid \in { << >>, << W("every") >> } }
    /\ IsTime(AfterAt(toks))

\* the dicts parse returns; the cron string f"{mn} {h} {dom} * {dow}" is kept
\* as the fields _parse_cron_field reads back from it (str() of a number
\* that is not negative reads back as that number)
IntervalRule(secs) == [kind |-> "interval", seconds |-> secs, cron |-> << >>]
CronRule(t, dom, dows) ==
    [kind |-> "cron", seconds |-> 0,
     cron |-> << << Num(t.m) >>, << Num(t.h) >>, dom, << Star >>, dows >>]

\* NLSchedule.parse: ok = FALSE stands for the ValueError it raises
Parse(text) ==
    LET toks == Synonyms(text)
        accept(rule) == [ok |-> TRUE, rule |-> rule]
        \* the numbers of the day names found in the list, in text order
        DowField(ws) ==
            LET days == SelectSeq(ws, IsDow)
            IN  [i \in 1..Len(days) |-> Num(DowNumber(days[i]))]
    IN  IF MatchInterval(toks)
        THEN accept(IntervalRule(toks[2].v * UnitSeconds(toks[3].s)))
        ELSE IF MatchEveryHour(toks)
        THEN accept(IntervalRule(SecondsPerHour))
        ELSE IF MatchDow(toks)
        THEN accept(CronRule(TimeOf(AfterAt(toks)), << Star >>,
                             << Num(DowNumber(toks[2])) >>))
        ELSE IF MatchEveryDay(toks)
        THEN accept(CronRule(TimeOf(AfterAt(toks)), << Star >>, << Star >>))
        ELSE IF MatchDowList(toks)
        THEN accept(CronRule(TimeOf(AfterAt(toks)), << Star >>,
                             DowField(SubSeq(toks, 2, AtIndex(toks) - 1))))
        ELSE IF MatchFirstDay(toks)
        THEN accept(CronRule(TimeOf(AfterAt(toks)), << Num(1) >>, << Star >>))
        ELSE [ok |-> FALSE, rule |-> NoSched]

\* the pieces of the schedule texts of RawManifests
Pieces(text) ==
    IF text = "every 40 seconds" THEN << W("every"), N(40), W("seconds") >>
    ELSE IF text = "every day at 12 AM"
    THEN << W("every"), W("day"), W("at"), N(12), W("am") >>
    ELSE IF text = "whenever" THEN << W("whenever") >>
    ELSE << >>

\* ------------------------------------------------------------- load()
\* the text of an EVENT.md, by what parse_event_md looks at: the file exists,
\* starts with ---, the header is closed by a second ---, the keys `type`,
\* `action` (its mcp tool) and `script`, and the schedule text
Raw(md, opens, closed, type, tool, script, sched) ==
    [md |-> md, opens |-> opens, closed |-> closed, type |-> type,
     tool |-> tool, script |-> script, sched |-> sched]

\* the manifests the model puts on disk before load()
RawManifests ==
    { Raw(TRUE, TRUE, TRUE, "scheduled", "mail_send", FALSE, "every 40 seconds"),
      Raw(TRUE, TRUE, TRUE, "scheduled", "mail_send", TRUE, "every day at 12 AM"),
      Raw(TRUE, TRUE, TRUE, "scheduled", "", TRUE, "every 40 seconds"),
      Raw(TRUE, TRUE, TRUE, "manual", "mail_send", FALSE, ""),
      Raw(TRUE, TRUE, TRUE, "manual", "mail_send", FALSE, "whenever"),
      Raw(TRUE, TRUE, TRUE, "scheduled", "mail_send", FALSE, "whenever"),
      Raw(TRUE, TRUE, TRUE, "scheduled", "", FALSE, "every 40 seconds"),
      Raw(TRUE, TRUE, TRUE, "", "mail_send", FALSE, "every 40 seconds"),
      Raw(TRUE, TRUE, FALSE, "scheduled", "mail_send", FALSE, "every 40 seconds"),
      Raw(TRUE, FALSE, FALSE, "scheduled", "mail_send", FALSE, "every 40 seconds"),
      Raw(FALSE, FALSE, FALSE, "", "", FALSE, "") }

\* NLSchedule.parse on the schedule texts of RawManifests
Compile(text) == Parse(Pieces(text))

\* parse_event_md: ok = FALSE stands for the exception it raises
ParseEventMd(raw) ==
    LET failed == [ok |-> FALSE, m |-> NoFolder]
        action == IF raw.tool # "" THEN McpAction(raw.tool) ELSE ScriptAction
    IN  IF ~raw.md THEN failed
        ELSE IF ~raw.opens THEN failed
        ELSE IF ~raw.closed THEN failed
        ELSE IF raw.type = "" THEN failed
        ELSE IF raw.tool = "" /\ ~raw.script THEN failed
        ELSE IF raw.sched # "" /\ raw.type = "scheduled"
        THEN IF Compile(raw.sched).ok
             THEN [ok |-> TRUE, m |-> Manifest(raw.type, Compile(raw.sched).rule, action)]
             ELSE failed
        ELSE [ok |-> TRUE, m |-> Manifest(raw.type, NoSched, action)]

\* a scan that gives up at the first folder that fails to load
ScanAfterErrorAbort(rest) == << >>

\* `except Exception as e: print(...)`: the for-loop goes on with the rest
ScanAfterError(rest) == rest

\* the engine is constructed, load() is about to iterate
\* sorted(self.events_root.iterdir())
InitLoad ==
    \E disk \in [Names -> RawManifests] :
        /\ scan = [i \in 1..Len(NameOrder) |->
                      [name |-> NameOrder[i], raw |-> disk[NameOrder[i]]]]
        /\ folders = Names
        /\ events = <<>>
        /\ last_fired = EmptyDict
        /\ cron_fired = {}
        /\ running = FALSE
        /\ clock = 0
        /\ loopPc = "init"
        /\ tickNow = 0
        /\ iterList = <<>>
        /\ iterLive = FALSE
        /\ iterIdx = 0
        /\ firePc = "none"
        /\ fireName = ""
        /\ fireEv = NoEvent
        /\ adminPc = "idle"
        /\ adminName = ""
        /\ cron_loop = EmptyDict
        /\ event_log = <<>>
        /\ fireResult = "none"
        /\ observe = FALSE
        /\ duration = NoCap
        /\ run_start = 0
        /\ call = NoCall
        /\ returned = NoReturn

\* one iteration of load()'s for-loop
LoadStep ==
    /\ scan # <<>>
    /\ LET c == Head(scan)
           parsed == ParseEventMd(c.raw)
       IN  IF ~c.raw.md
           THEN /\ scan' = Tail(scan)
                /\ events' = events
           ELSE IF parsed.ok
           THEN /\ scan' = Tail(scan)
                /\ events' = Append(events, EventDef(c.name, parsed.m))
           ELSE /\ scan' = ScanAfterError(Tail(scan))
                /\ events' = events
    /\ UNCHANGED <<folders, last_fired, cron_fired, running, clock, loopVars,
                   fireVars, adminVars, cron_loop, outVars, duration, run_start,
                   call, returned>>

SpecLoad == InitLoad /\ [][LoadStep]_vars

\* run(duration_seconds) with a caller of stop(); the registry is the one
\* loaded at boot; the cap is none, or 40 or 60 seconds
InitRun == Boot(FALSE, {NoCap, 2 * Granule, 3 * Granule})

\* a step of the run() coroutine
LoopStep ==
    \/ RunStart
    \/ TickStart
    \/ TickSkip
    \/ TickFire
    \/ TickResume
    \/ TickEnd
    \/ DurationCheck
    \/ LoopExit

NextRun ==
    \/ LoopStep
    \/ Stop
    \/ \E n \in Names : Activate(n)
    \/ \E n \in Names : Deactivate(n)

SpecRun == InitRun /\ [][NextRun]_vars

\* the asyncio loop keeps running the run() coroutine, and every dispatch
\* terminates
SpecRunFair == SpecRun /\ WF_vars(LoopStep)

\* run() without a cap over a registry of up to two events. Every name has
\* its folder at boot, or none; among the manifests are two whose event gets
\* no compiled schedule: parse_event_md compiles the schedule text of
\* `scheduled` events only, and only when there is one
InitPoll ==
    BootOf([Names -> LoadableManifests
                     \cup { Manifest("event-triggered", NoSched, McpAction("mail_send")),
                            Manifest("scheduled", NoSched, McpAction("mail_send")) }
                     \cup {NoFolder}],
           FALSE, {NoCap})

\* a step of the run() coroutine when no cap was given
PollStep ==
    \/ RunStart
    \/ TickStart
    \/ TickSkip
    \/ TickFire
    \/ TickResume
    \/ TickEnd
    \/ LoopExit

NextPoll ==
    \/ PollStep
    \/ Stop
    \/ \E n \in Names : Activate(n)
    \/ \E n \in Names : Deactivate(n)

SpecPoll == InitPoll /\ [][NextPoll]_vars

\* the asyncio loop keeps running the run() coroutine, and every dispatch
\* terminates
SpecPollFair == SpecPoll /\ WF_vars(PollStep)

\* Registries in which two entries carry one name. Requests are served on
\* threads of their own (app.run(threaded=True)): a create that has parsed its
\* manifest and is overtaken by a complete delete of the same name appends an
\* entry whose folder is gone, and the next create of that name appends a
\* second one. InitDup is the application holding such a registry, run() not
\* yet started.
InitDup ==
    /\ events \in { << EventDef(NameOrder[1], c1[2]), EventDef(NameOrder[1], c2[2]) >> :
                      c1 \in CreateCommands, c2 \in CreateCommands }
    /\ folders = { NameOrder[1] }
    /\ last_fired = EmptyDict
    /\ cron_fired = {}
    /\ running = FALSE
    /\ clock = 0
    /\ loopPc = "init"
    /\ tickNow = 0
    /\ iterList = <<>>
    /\ iterLive = FALSE
    /\ iterIdx = 0
    /\ firePc = "none"
    /\ fireName = ""
    /\ fireEv = NoEvent
    /\ adminPc = "idle"
    /\ adminName = ""
    /\ cron_loop = EmptyDict
    /\ event_log = <<>>
    /\ fireResult = "none"
    /\ observe = FALSE
    /\ duration = NoCap
    /\ run_start = 0
    /\ scan = <<>>
    /\ call = NoCall
    /\ returned = NoReturn

\* the loop and the lookup-by-name operations
NextDup ==
    \/ RunStart
    \/ TickStart
    \/ TickSkip
    \/ TickFire
    \/ TickResume
    \/ TickEnd
    \/ \E n \in Names : FireRequest(n)
    \/ FireNotFound
    \/ FireStart
    \/ FireResume
    \/ \E n \in Names : Activate(n)
    \/ \E n \in Names : Deactivate(n)
    \/ \E n \in Names : DeleteFilter(n)
    \/ DeleteReturn

SpecDup == InitDup /\ [][NextDup]_vars

\* --------------------------------------------- stop() before run()
\* engine.stop() called on the engine that run() has not been called on yet:
\* self._running = False; `call` remembers that the call was made
StopBeforeRun ==
    /\ loopPc = "init"
    /\ call = NoCall
    /\ running' = FALSE
    /\ call' = [fn |-> "stop"]
    /\ UNCHANGED <<folders, events, last_fired, cron_fired, clock, loopVars,
                   fireVars, adminVars, cron_loop, outVars, duration, run_start,
                   scan, returned>>

NextStopFirst ==
    \/ NextRun
    \/ StopBeforeRun

\* run(duration_seconds) with callers of stop() before and after it began;
\* the asyncio loop keeps running the run() coroutine, and every dispatch
\* terminates
SpecStopFirstFair == InitRun /\ [][NextStopFirst]_vars /\ WF_vars(LoopStep)

\* ------------------------------- the engine over a registry it is given
\* AEPEventEngine with engine.events holding two ACTIVE Interval events of
\* one name, every 20 or every 40 seconds each; run() has not started
InitTwin ==
    /\ events \in { << [EventDef(NameOrder[1],
                                 Manifest("scheduled",
                                          [IntervalSched EXCEPT !.seconds = s1],
                                          McpAction("mail_send")))
                         EXCEPT !.active = TRUE],
                        [EventDef(NameOrder[1],
                                 Manifest("scheduled",
                                          [IntervalSched EXCEPT !.seconds = s2],
                                          McpAction("mail_send")))
                         EXCEPT !.active = TRUE] >> :
                      s1 \in {Granule, 2 * Granule}, s2 \in {Granule, 2 * Granule} }
    /\ folders = {}
    /\ last_fired = EmptyDict
    /\ cron_fired = {}
    /\ running = FALSE
    /\ clock = 0
    /\ loopPc = "init"
    /\ tickNow = 0
    /\ iterList = <<>>
    /\ iterLive = FALSE
    /\ iterIdx = 0
    /\ firePc = "none"
    /\ fireName = ""
    /\ fireEv = NoEvent
    /\ adminPc = "idle"
    /\ adminName = ""
    /\ cron_loop = EmptyDict
    /\ event_log = <<>>
    /\ fireResult = "none"
    /\ observe = FALSE
    /\ duration = NoCap
    /\ run_start = 0
    /\ scan = <<>>
    /\ call = NoCall
    /\ returned = NoReturn

\* run(), stop() and a caller that sets `active` of the first event to False
NextTwin ==
    \/ PollStep
    \/ Stop
    \/ \E n \in Names : Deactivate(n)

SpecTwin == InitTwin /\ [][NextTwin]_vars

\* ------------------------------------- the loop and manual firing
\* run() without a cap over a registry of up to two events, with the
\* callers of fire-now, activate and deactivate
NextManual ==
    \/ RunStart
    \/ TickStart
    \/ TickSkip
    \/ TickFire
    \/ TickResume
    \/ TickEnd
    \/ \E n \in Names : FireRequest(n)
    \/ FireNotFound
    \/ FireStart
    \/ FireResume
    \/ \E n \in Names : Activate(n)
    \/ \E n \in Names : Deactivate(n)

SpecManual == InitPoll /\ [][NextManual]_vars

\* --------------------------------- the caller of fire_event_now gives up
\* a bounded wait whose expiry cancels the coroutine it waited for
FireGiveUpCancelling ==
    /\ fireResult = "waiting"
    /\ firePc \in {"queued", "dispatch"}
    /\ call = NoCall
    /\ fireResult' = "timeout"
    /\ call' = [fn |-> "fire_event_now",
                name |-> IF firePc = "queued" THEN fireName ELSE fireEv.name,
                gave_up_at |-> clock]
    /\ firePc' = "none"
    /\ fireName' = ""
    /\ fireEv' = NoEvent
    /\ UNCHANGED <<folders, events, last_fired, cron_fired, running, clock,
                   loopVars, adminVars, cron_loop, event_log,
                   observe, duration, run_start, scan, returned>>

\* future.result(timeout=10) raises TimeoutError in the caller of
\* fire_event_now(name); the coroutine stays submitted to the loop. `call`
\* remembers the request that was given up and the time it was given up at.
FireGiveUp ==
    /\ fireResult = "waiting"
    /\ firePc \in {"queued", "dispatch"}
    /\ call = NoCall
    /\ fireResult' = "timeout"
    /\ call' = [fn |-> "fire_event_now",
                name |-> IF firePc = "queued" THEN fireName ELSE fireEv.name,
                gave_up_at |-> clock]
    /\ UNCHANGED <<folders, events, last_fired, cron_fired, running, clock,
                   loopVars, fireVars, adminVars, cron_loop, event_log,
                   observe, duration, run_start, scan, returned>>

NextGiveUp ==
    \/ NextManual
    \/ FireGiveUp

\* the booted application with the callers of fire_event_now observed, one
\* of them giving up
SpecGiveUp == Boot(TRUE, {NoCap}) /\ [][NextGiveUp]_vars

\* ------------------------------------------- library calls on their own
\* the engine's variables: everything but the call under examination
engineVars == <<folders, events, last_fired, cron_fired, running, clock,
                loopVars, fireVars, adminVars, cron_loop, outVars,
                duration, run_start, scan>>

\* AEPEventEngine.__init__: nothing loaded, nothing running
EngineIdle ==
    /\ folders = {}
    /\ events = <<>>
    /\ last_fired = EmptyDict
    /\ cron_fired = {}
    /\ running = FALSE
    /\ clock = 0
    /\ loopPc = "init"
    /\ tickNow = 0
    /\ iterList = <<>>
    /\ iterLive = FALSE
    /\ iterIdx = 0
    /\ firePc = "none"
    /\ fireName = ""
    /\ fireEv = NoEvent
    /\ adminPc = "idle"
    /\ adminName = ""
    /\ cron_loop = EmptyDict
    /\ event_log = <<>>
    /\ fireResult = "none"
    /\ observe = FALSE
    /\ duration = NoCap
    /\ run_start = 0
    /\ scan = <<>>

\* ------------------------------------------------------------ MCPClient
\* tool names callers use; params mappings they pass
ToolNames == {"mail_send", "report"}
ParamSets == {"p1", "p2"}

\* one run of the handler's body on the params
Ran(h, p) == [by |-> h.id, with |-> p]

\* the result mapping the handler's body computes
ResultOf(h, p) == [is |-> "result", by |-> h.id, with |-> p]

\* MCPClient(): no tool registered
InitCall ==
    /\ EngineIdle
    /\ call = [fn |-> "call_tool", tools |-> EmptyDict, name |-> "", params |-> ""]
    /\ returned = NoReturn

\* register_tool(name, fn): self._tools[name] = fn
RegisterTool(name, h) ==
    /\ call' = [call EXCEPT !.tools = Put(@, name, h)]
    /\ UNCHANGED <<returned, engineVars>>

\* await call_tool(name, params): it raises RuntimeError("MCP tool ... not
\* found. Available: ...") or returns a value; `ran` lists the handler
\* bodies that ran. asyncio.iscoroutinefunction(fn) holds of an `async def`
\* only; fn(params) for any other callable is the result of a plain function,
\* else a coroutine object nobody has awaited.
CallTool(name, params) ==
    /\ call' = [call EXCEPT !.name = name, !.params = params]
    /\ returned' =
         IF name \notin DOMAIN call.tools
         THEN [done |-> TRUE, raised |-> TRUE, error |-> "tool_not_found",
               available |-> DOMAIN call.tools,
               value |-> [is |-> "none", by |-> 0, with |-> ""], ran |-> << >>]
         ELSE LET fn == call.tools[name]
                  r  == IF fn.kind \in {"async def", "def"}
                        THEN [value |-> ResultOf(fn, params),
                              ran |-> << Ran(fn, params) >>]
                        ELSE [value |-> [is |-> "coroutine", by |-> fn.id,
                                         with |-> params],
                              ran |-> << >>]
              IN  [done |-> TRUE, raised |-> FALSE, error |-> "", available |-> {},
                   value |-> r.value, ran |-> r.ran]
    /\ UNCHANGED engineVars

\* the callables given to register_tool: plain functions, a coroutine
\* function (async def), and a plain function that calls a coroutine function
\* and hands back its coroutine (an async def behind a decorator's wrapper)
NextCall ==
    \/ \E name \in ToolNames,
          h \in { [id |-> 1, kind |-> "def"],
                  [id |-> 2, kind |-> "def"],
                  [id |-> 3, kind |-> "async def"],
                  [id |-> 4, kind |-> "def returning coroutine"] } :
            RegisterTool(name, h)
    \/ \E name \in ToolNames, params \in ParamSets : CallTool(name, params)

SpecCall == InitCall /\ [][NextCall]_vars

\* ------------------------------------------- NLSchedule.parse on its own
\* The schedule texts given to parse. TimeTexts is <time> as written: an
\* hour of 0, 9, 12, 13 or 25, optionally :00, :30 or :75, optionally am or
\* pm; midnight; noon; a number of three digits; nothing. HeadTexts is what
\* the texts put before `at`, and `tr` what a text carries after its last
\* recognised piece.
Texts ==
    LET TimeTexts ==
            { << N(h) >> \o mm \o ap :
                h \in {0, 9, 12, 13, 25},
                mm \in { << >> } \cup { << M(m) >> : m \in {0, 30, 75} },
                ap \in { << >>, << W("am") >>, << W("pm") >> } }
            \cup { << W("midnight") >>, << W("noon") >>, << N(100) >>, << >> }
        HeadTexts ==
            { << W("every"), W("monday") >>,
              << W("every"), W("sunday") >>,
              << W("every"), W("day") >>,
              << W("every"), W("monday"), W("and"), W("friday") >>,
              << W("every"), W("saturday"), W(","), W("sunday") >>,
              << W("every"), W("tuesday"), W(","), W("and"), W("thursday") >>,
              << W("every"), W("monday"), W("or"), W("friday") >>,
              << W("every"), W("weekday") >>,
              << W("first"), W("day"), W("of"), W("month") >>,
              << W("first"), W("day"), W("of"), W("every"), W("month") >>,
              << W("on"), W("the"), W("first"), W("day"), W("of"), W("month") >>,
              << W("on"), W("first"), W("day"), W("of"), W("month") >> }
    IN
    { << W("every"), N(n), W(u) >> \o tr :
        n \in {0, 1, 5}, u \in UnitWords \cup {"days"},
        tr \in { << >>, << W("sharp") >> } }
    \cup { << W("every"), W("hour") >> \o tr : tr \in { << >>, << W("sharp") >> } }
    \cup { << W("every"), W("hours") >>, << W("hourly") >>, << >> }
    \cup { hd \o << W("at") >> \o tm : hd \in HeadTexts, tm \in TimeTexts }
    \cup { << W("every"), W("day"), W("at"), N(9), W("am"), W("sharp") >>,
           << W("every"), W("day"), W("at"), N(9), W("and"), W("at"), N(10) >> }

InitParse ==
    /\ EngineIdle
    /\ call \in { [fn |-> "parse", text |-> t] : t \in Texts }
    /\ returned = NoReturn

\* NLSchedule.parse(text) returns or raises
ParseCall ==
    /\ call.fn = "parse"
    /\ ~returned.done
    /\ returned' = [done |-> TRUE, ok |-> Parse(call.text).ok,
                    rule |-> Parse(call.text).rule]
    /\ UNCHANGED <<call, engineVars>>

SpecParse == InitParse /\ [][ParseCall]_vars

\* ---------------------------------------------- _cron_matches on its own
Range(a, b) == [t |-> "range", a |-> a, b |-> b]
Step(base, step) == [t |-> "step", a |-> base, b |-> step]

\* _cron_matches is given the cron expressions with the fields 0 | * | */15 |
\* 5/20 | 0,30,58-59 for the minute, and so on, and the datetimes Monday 1,
\* Tuesday 2, Sunday 7 and Monday 15 January, at 00:00, 09:00, 09:01 and
\* 17:30, second 0 or 59
InitCron ==
    LET CronTexts ==
            { << mi, hr, dom, mon, dow >> :
                mi \in { << Num(0) >>, << Star >>, << Step(-1, 15) >>, << Step(5, 20) >>,
                         << Num(0), Num(30), Range(58, 59) >> },
                hr \in { << Num(9) >>, << Star >>, << Range(9, 17) >> },
                dom \in { << Star >>, << Num(1) >>, << Step(1, 7) >> },
                mon \in { << Star >>, << Num(2) >>, << Range(1, 3) >> },
                dow \in { << Star >>, << Num(1) >>, << Num(0) >>, << Num(1), Num(5) >>,
                          << Range(2, 4) >> } }
        ProbeTimes ==
            { d * SecondsPerDay + hm[1] * SecondsPerHour
                + hm[2] * SecondsPerMinute + sec :
                d \in {0, 1, 6, 14},
                hm \in { <<0, 0>>, <<9, 0>>, <<9, 1>>, <<17, 30>> },
                sec \in {0, 59} }
    IN
    /\ EngineIdle
    /\ call \in { [fn |-> "cron_matches", cron |-> c, dt |-> t] :
                    c \in CronTexts, t \in ProbeTimes }
    /\ returned = NoReturn

\* _cron_matches(cron, dt) returns
MatchCall ==
    /\ call.fn = "cron_matches"
    /\ ~returned.done
    /\ returned' = [done |-> TRUE, value |-> CronMatches(call.cron, call.dt)]
    /\ UNCHANGED <<call, engineVars>>

SpecCron == InitCron /\ [][MatchCall]_vars

\* ------------------------------------- file references in action.params
\* The job folder is events/a. A path is the sequence of its components
\* below the events root and a component the sequence of its pieces of text
\* (so that str.startswith is the prefix relation): the folders a, ab and b
\* are <<"a">>, <<"a", "b">> and <<"b">>, the file name to.txt is
\* <<"to", ".txt">>. The disk maps the paths of the files that exist to their
\* contents, a sequence of lines. A parameter value is
\*   [k |-> "str", path |-> the string read as a relative path]
\*   [k |-> "num", n |-> the number]
\* and a resolved one can also be
\*   [k |-> "list", lines |-> ...]   the list made of a .txt file
\*   [k |-> "text", lines |-> ...]   the stripped text of another file
\*   [k |-> "raise"]                 read_text raised: the path is a folder
\* _resolve_value(value, event_dir) against the files of `disk`
ResolveValue(value, disk) ==
    LET event_dir == << <<"a">> >>
        joined == event_dir \o value.path
        \* Path.resolve(): a `..` component removes the component before it
        norm[i \in 0..Len(joined)] ==
            IF i = 0 THEN << >>
            ELSE IF joined[i] = <<"..">>
            THEN (IF norm[i - 1] = << >> THEN << >>
                  ELSE SubSeq(norm[i - 1], 1, Len(norm[i - 1]) - 1))
            ELSE Append(norm[i - 1], joined[i])
        candidate == norm[Len(joined)]
        folder == candidate \in { << >>, << <<"a">> >>, << <<"a", "b">> >>, << <<"b">> >> }
        exists == candidate \in DOMAIN disk \/ folder
        \* str(candidate).startswith(str(event_dir.resolve()))
        startswith ==
            /\ Len(candidate) >= 1
            /\ Len(candidate[1]) >= Len(event_dir[1])
            /\ SubSeq(candidate[1], 1, Len(event_dir[1])) = event_dir[1]
        raw == disk[candidate]
        kept == { i \in 1..Len(raw) : raw[i] # "" }
        first == CHOOSE i \in kept : \A j \in kept : i <= j
        last == CHOOSE i \in kept : \A j \in kept : j <= i
        endswith_txt ==
            /\ value.path # << >>
            /\ value.path[Len(value.path)][Len(value.path[Len(value.path)])] = ".txt"
    IN  IF value.k # "str" THEN value
        ELSE IF exists /\ startswith
        THEN IF folder
             THEN [k |-> "raise", path |-> << >>, n |-> 0, lines |-> << >>]
             ELSE IF endswith_txt
             THEN [k |-> "list", path |-> << >>, n |-> 0,
                   lines |-> SelectSeq(raw, LAMBDA l : l \notin {"", "# cc"})]
             ELSE [k |-> "text", path |-> << >>, n |-> 0,
                   lines |-> IF kept = {} THEN << >> ELSE SubSeq(raw, first, last)]
        ELSE value

\* a dispatch that adds the event name to the stored mapping itself and
\* takes the values from the files as they are now
DispatchedInPlace(resolved, name) ==
    LET fresh == [k \in DOMAIN call.raw |-> ResolveValue(call.raw[k], call.disk)]
    IN  [params |-> Put(fresh, "_event_name", [k |-> "name", path |-> << >>,
                                               n |-> 0, lines |-> <<name>>]),
         stored |-> Put(fresh, "_event_name", [k |-> "name", path |-> << >>,
                                               n |-> 0, lines |-> <<name>>])]

\* _dispatch, mcp branch: params = ev.resolved_params.copy();
\* params["_event_name"] = ev.name. `params` goes to the handler, `stored` is
\* ev.resolved_params afterwards.
Dispatched(resolved, name) ==
    [params |-> Put(resolved, "_event_name", [k |-> "name", path |-> << >>,
                                              n |-> 0, lines |-> <<name>>]),
     stored |-> resolved]

\* the folder a holds an EVENT.md whose action.params has the one key `to`;
\* the files to.txt and body.md of the folder and to.txt of the folders ab
\* and b exist or not
InitResolve ==
    LET Str(p) == [k |-> "str", path |-> p, n |-> 0, lines |-> << >>]
        to_txt == <<"to", ".txt">>
        Files == { << <<"a">>, to_txt >>, << <<"a">>, <<"body", ".md">> >>,
                   << <<"a", "b">>, to_txt >>, << <<"b">>, to_txt >> }
        Values == { Str(<< to_txt >>), Str(<< <<"body", ".md">> >>),
                    Str(<< <<"..">>, <<"a", "b">>, to_txt >>),
                    Str(<< <<"..">>, <<"b">>, to_txt >>),
                    Str(<< <<"..">>, to_txt >>),
                    Str(<< <<"sub">>, <<"..">>, to_txt >>),
                    Str(<< <<"hello">> >>), Str(<< >>),
                    [k |-> "num", path |-> << >>, n |-> 5, lines |-> << >>] }
        Contents == { << "x@y" >>, << "", "# cc", "z@y", "" >> }
    IN  /\ EngineIdle
        /\ \E present \in SUBSET Files, v \in Values :
            \E d \in [present -> Contents] :
                call = [fn |-> "resolve", disk |-> d, raw |-> [to |-> v],
                        loaded |-> "no", at_load |-> d, resolved |-> EmptyDict,
                        edits |-> 0]
        /\ returned = NoReturn

\* parse_event_md: resolved = {k: _resolve_value(v, event_dir) for k, v in
\* raw_params.items()}; an exception makes load() skip the folder
LoadParams ==
    /\ call.fn = "resolve"
    /\ call.loaded = "no"
    /\ LET res == [k \in DOMAIN call.raw |-> ResolveValue(call.raw[k], call.disk)]
       IN  call' = IF \E k \in DOMAIN res : res[k].k = "raise"
                   THEN [call EXCEPT !.loaded = "skipped"]
                   ELSE [call EXCEPT !.loaded = "yes", !.at_load = call.disk,
                                     !.resolved = res]
    /\ UNCHANGED <<returned, engineVars>>

\* somebody writes, creates or removes a file under the events root
EditFile ==
    /\ call.fn = "resolve"
    /\ call.edits < MaxEdits
    /\ \E p \in DOMAIN call.at_load \cup DOMAIN call.disk :
        \E c \in { call.disk[q] : q \in DOMAIN call.disk } \cup { << >> } :
            /\ (p \in DOMAIN call.disk => c # call.disk[p])
            /\ call' = [call EXCEPT !.edits = @ + 1, !.disk =
                          IF c = << >>
                          THEN [q \in DOMAIN call.disk \ {p} |-> call.disk[q]]
                          ELSE Put(call.disk, p, c)]
    /\ UNCHANGED <<returned, engineVars>>

\* _dispatch of the loaded event: the tool handler is called with params;
\* `seen` keeps the files as they were at that moment
DispatchTool ==
    /\ call.fn = "resolve"
    /\ call.loaded = "yes"
    /\ returned' = [done |-> TRUE, params |-> Dispatched(call.resolved, "a").params,
                    seen |-> call.disk]
    /\ call' = [call EXCEPT !.resolved = Dispatched(call.resolved, "a").stored]
    /\ UNCHANGED engineVars

NextResolve ==
    \/ LoadParams
    \/ EditFile
    \/ DispatchTool

SpecResolve == InitResolve /\ [][NextResolve]_vars

\* ================================================================ claims
IsActiveInterval(ev) ==
    ev.active /\ ev.event_type = "scheduled" /\ ev.schedule.kind = "interval"

\* C1: for an ACTIVE scheduled event with an Interval rule of S seconds, is_due
\* at time `now` is true when the event has no last_fired entry, false when
\* now - last_fired < S, and true when now - last_fired >= S (the boundary
\* now - last_fired = S is due).
C1_IntervalDueness ==
    \A i \in 1..Len(events) :
        IsActiveInterval(events[i]) =>
            \A now \in Times :
                LET n == events[i].name
                    S == events[i].schedule.seconds
                IN  /\ n \notin DOMAIN last_fired => IsDue(events[i], now)
                    /\ (n \in DOMAIN last_fired /\ now - last_fired[n] < S)
                          => ~IsDue(events[i], now)
                    /\ (n \in DOMAIN last_fired /\ now - last_fired[n] >= S)
                          => IsDue(events[i], now)

\* the tick evaluates an active Interval event exactly S seconds after its
\* last firing
C1_Witness ==
    /\ loopPc = "iter"
    /\ iterIdx <= CurLen
    /\ IsActiveInterval(CurEv)
    /\ CurEv.name \in DOMAIN last_fired
    /\ tickNow - last_fired[CurEv.name] = CurEv.schedule.seconds

\* C2: for an ACTIVE Cron event, the ticks whose timestamps fall in one
\* matching wall-clock minute dispatch it at most once; a tick in a later
\* matching minute dispatches it again.
C2_CronOncePerMinute ==
    /\ \A n \in DOMAIN cron_loop : cron_loop[n].count <= 1
    /\ \A i \in 1..Len(events) :
          (events[i].event_type = "scheduled" /\ events[i].schedule.kind = "cron")
          => \A now \in Times :
                (MinuteKey(now) > MinuteKey(clock)
                   /\ CronMatches(events[i].schedule.cron, now))
                => IsDue(events[i], now)

\* a cron event has been dispatched by the loop in two different matching minutes
C2_Witness ==
    \E n \in DOMAIN cron_loop :
        /\ cron_loop[n].count = 1
        /\ <<n, cron_loop[n].minute>> \in cron_fired
        /\ \E k \in cron_fired : k[1] = n /\ k[2] < cron_loop[n].minute

\* C3: the polling loop starts a dispatch of an event only if the event's
\* `active` flag is true when the tick evaluates it; an event that is INACTIVE
\* at evaluation time is skipped, whatever its schedule or firing history.
C3_OnlyActiveDispatched ==
    [][ /\ TickFire => CurEv.active
        /\ (loopPc = "iter" /\ iterIdx <= CurLen /\ ~CurEv.active)
              => /\ loopPc' = "iter"
                 /\ iterIdx' # iterIdx =>
                        /\ iterIdx' = iterIdx + 1
                        /\ UNCHANGED <<last_fired, cron_fired, cron_loop>>
      ]_vars

\* the tick is at an INACTIVE event that is due by its schedule and history
C3_Witness ==
    /\ loopPc = "iter"
    /\ iterIdx <= CurLen
    /\ ~CurEv.active
    /\ IsDue(CurEv, tickNow)

ActiveOf(list, n) == { list[i].active : i \in { j \in 1..Len(list) : list[j].name = n } }

\* C4: no step of the polling loop (tick, due-ness evaluation, dispatch,
\* success or failure of a dispatch) changes any event's `active` flag; the
\* flag of an event changes only in activate and deactivate.
C4_LoopLeavesActive ==
    [][ events' # events =>
          \A n \in Names :
            (ActiveOf(events, n) # {} /\ ActiveOf(events', n) # {}
               /\ ActiveOf(events, n) # ActiveOf(events', n))
            => (Activate(n) \/ Deactivate(n)) ]_vars

\* a tick has dispatched an event whose tool is not registered, and the event
\* is still ACTIVE
C4_Witness ==
    /\ loopPc = "iter"
    /\ iterLive
    /\ \E i \in 1..Len(events) :
        /\ i < iterIdx
        /\ events[i].active
        /\ events[i].action.kind = "mcp"
        /\ events[i].action.target \notin RegisteredTools
        /\ events[i].name \in DOMAIN last_fired
        /\ last_fired[events[i].name] = tickNow

\* the entry at the for-loop's position is an event of the registry
CurAttached == iterLive \/ ~iterList[iterIdx].detached

\* C5: in a tick, for each due event the loop writes last_fired[name] = the
\* tick's timestamp before it invokes dispatch, and the end of the dispatch
\* writes nothing; so while the dispatch is in flight, or after it has
\* failed, an Interval event whose interval has not elapsed since that
\* timestamp is not due.
C5_StampBeforeDispatch ==
    [][ /\ TickFire =>
              /\ CurEv.name \in DOMAIN last_fired'
              /\ last_fired'[CurEv.name] = tickNow
              /\ CurEv.schedule.kind = "interval" =>
                    \A now \in Times :
                        now - tickNow < CurEv.schedule.seconds
                        => ~IntervalDue(TRUE, last_fired'[CurEv.name], now,
                                        CurEv.schedule.seconds)
        /\ TickResume => UNCHANGED last_fired
        /\ (loopPc' = "dispatch" /\ CurAttached'
              /\ CurEv'.schedule.kind = "interval") =>
              \A now \in Times :
                  now - tickNow' < CurEv'.schedule.seconds => ~IsDue(CurEv, now)'
      ]_vars

\* the dispatch a tick started for an Interval event is in flight, and the
\* event carries the tick's timestamp
C5_Witness ==
    /\ loopPc = "dispatch"
    /\ CurAttached
    /\ CurEv.schedule.kind = "interval"
    /\ CurEv.name \in DOMAIN last_fired
    /\ last_fired[CurEv.name] = tickNow
    /\ \E now \in Times : now > tickNow /\ ~IsDue(CurEv, now)

\* C6: a ToolCall dispatch whose tool is unregistered or whose handler raises
\* is non-fatal: the error does not leave dispatch, the loop goes on to the
\* remaining events of the tick and to later ticks, `running` stays true and
\* the event stays ACTIVE.
C6_ToolCallNonFatal ==
    [][ ((TickFire \/ TickResume) /\ CurEv.action.kind = "mcp") =>
            /\ loopPc' \in {"iter", "dispatch"}
            /\ loopPc' = "iter" => (iterIdx' = iterIdx + 1 /\ tickNow' = tickNow)
            /\ running /\ running'
            /\ events' = events
      ]_vars

\* a ToolCall with an unregistered tool has failed in this tick, its event is
\* still ACTIVE, the loop is running and stands at a remaining event
C6_Witness ==
    /\ loopPc = "iter"
    /\ running
    /\ iterLive
    /\ iterIdx <= CurLen
    /\ iterIdx > 1
    /\ events[iterIdx - 1].active
    /\ events[iterIdx - 1].action.kind = "mcp"
    /\ events[iterIdx - 1].action.target \notin RegisteredTools
    /\ events[iterIdx - 1].name \in DOMAIN last_fired
    /\ last_fired[events[iterIdx - 1].name] = tickNow

\* C7: a ScriptCall dispatch failure of any kind (script path absent, entry
\* point `handle` absent, or an error raised while loading or running the
\* script) is isolated to that event: it never terminates the polling loop,
\* and the remaining events of the tick are still evaluated.
C7_ScriptFailureIsolated ==
    [][ ((TickFire \/ TickResume) /\ CurEv.action.kind = "script") =>
            /\ loopPc' \in {"iter", "dispatch"}
            /\ loopPc' = "iter" => (iterIdx' = iterIdx + 1 /\ tickNow' = tickNow)
      ]_vars

\* the keys of the cron cache that belong to the name
CronKeysOf(fired, n) == { k \in fired : k[1] = n }

\* C8: after delete(name) returns successfully, the registry holds no event
\* named `name`, last_fired has no entry for `name`, and
\* cron_fired_this_minute has no key for `name` in any minute bucket.
C8_DeletePurges ==
    [][ DeleteReturn =>
            /\ FirstIndex(adminName)' = 0
            /\ adminName \notin DOMAIN last_fired'
            /\ CronKeysOf(cron_fired', adminName) = {}
      ]_vars

\* C9: an event created under a name (a deleted event's name included) has no
\* firing history: once activated, an Interval event is due on its first
\* evaluation and a Cron event is due on its first evaluation in a matching
\* minute, even when the deleted event had fired earlier in that same minute.
C9_RecreatedHasNoHistory ==
    [][ \A c \in CreateCommands :
          Create(c[1], c[2]) =>
            LET ev == [EventDef(c[1], c[2]) EXCEPT !.active = TRUE]
            IN  \A now \in Times :
                  now >= clock =>
                    /\ ev.schedule.kind = "interval" => ShouldFire(ev, now)'
                    /\ (ev.schedule.kind = "cron"
                          /\ CronMatches(ev.schedule.cron, now))
                        => ShouldFire(ev, now)'
      ]_vars

\* C10: under every interleaving of delete(name) with a running tick or with
\* an in-flight fire-now of the same event, once delete has returned and
\* until the name is created again, the loop starts no dispatch of the
\* deleted event and no step writes a last_fired entry for `name`.
C10_DeletedStaysSilent ==
    [][ \A n \in Names :
          (n \notin folders /\ n \notin folders') =>
            /\ ~(TickFire /\ CurEv.name = n)
            /\ n \in DOMAIN last_fired' =>
                  (n \in DOMAIN last_fired /\ last_fired'[n] = last_fired[n])
      ]_vars

\* C11: a manual fire-now dispatch of an event and the polling loop's own
\* dispatch of the same event are never in flight at the same time.
C11_NoOverlappingDispatch ==
    ~ /\ loopPc = "dispatch"
      /\ firePc = "dispatch"
      /\ CurAttached
      /\ CurEv.name = fireEv.name
      /\ CurEv.name \in folders

\* the name the fire-now coroutine dispatches in this step
FiredName == IF firePc = "queued" THEN fireName ELSE fireEv.name

\* C12: a manual fire-now of an existing event ends, whatever the outcome of
\* its dispatch, with last_fired[name] set to the time of the manual firing;
\* afterwards an Interval event is not due before a full interval has elapsed
\* since then.
C12_FireNowStamps ==
    [][ ((FireStart \/ FireResume) /\ firePc' = "none") =>
            /\ FiredName \in DOMAIN last_fired'
            /\ last_fired'[FiredName] = clock'
            /\ clock' > clock
      ]_vars

\* C13: a fire-now request issued while the polling loop is not running, or
\* whose bounded wait times out, ends in an error outcome for the caller; when
\* the loop is not running nothing is submitted or dispatched and the
\* registry, last_fired and the audit log stay as they are.
C13_FireNowUnavailable ==
    [][ /\ (firePc = "none" /\ fireResult' # fireResult
              /\ loopPc \in {"init", "crashed", "stopped"})
             => /\ fireResult' = "not_running"
                /\ UNCHANGED <<events, last_fired, cron_fired, event_log, fireVars>>
        /\ (firePc = "none" /\ firePc' # "none")
             => loopPc \in {"top", "iter", "dispatch", "sleep"}
        /\ (fireResult = "waiting" /\ fireResult' # "waiting"
              /\ firePc' = firePc)
             => /\ fireResult' = "timeout"
                /\ UNCHANGED <<events, last_fired, cron_fired, event_log>>
      ]_vars

\* the run() coroutine has ended with an exception and a later fire-now was
\* refused
C13_Witness ==
    /\ loopPc = "crashed"
    /\ fireResult = "not_running"
    /\ firePc = "none"

\* the step leaves every event but the first one named n as it is
OthersKept(n) ==
    /\ Len(events') = Len(events)
    /\ \A i \in 1..Len(events) : i # FirstIndex(n) => events'[i] = events[i]
    /\ events'[FirstIndex(n)] = [events[FirstIndex(n)] EXCEPT !.active = @]
         \/ events'[FirstIndex(n)] = [events[FirstIndex(n)] EXCEPT !.active = ~@]

\* C14: activate and deactivate of an existing event are idempotent on the
\* `active` flag: activate ends with active = true and deactivate with
\* active = false whether or not the event was already in that state, each
\* call appends exactly one audit record, and neither changes last_fired,
\* the cron buckets or any other event.
C14_ActivateIdempotent ==
    [][ \A n \in Names :
          /\ Activate(n) =>
                /\ events'[FirstIndex(n)].active
                /\ event_log' = Append(event_log, LogEntry(n, "activated", "activated"))
                /\ OthersKept(n)
                /\ UNCHANGED <<last_fired, cron_fired, folders>>
          /\ Deactivate(n) =>
                /\ ~events'[FirstIndex(n)].active
                /\ event_log' = Append(event_log, LogEntry(n, "deactivated", "deactivated"))
                /\ OthersKept(n)
                /\ UNCHANGED <<last_fired, cron_fired, folders>>
      ]_vars

\* an event that was already ACTIVE has been activated again: two audit
\* records in a row, and the event is ACTIVE
C14_Witness ==
    /\ Len(event_log) >= 2
    /\ event_log[Len(event_log)].action = "activated"
    /\ event_log[Len(event_log) - 1] = event_log[Len(event_log)]
    /\ FirstIndex(event_log[Len(event_log)].event) # 0
    /\ events[FirstIndex(event_log[Len(event_log)].event)].active

\* event_log has grown by exactly one entry, which carries the name and the
\* action kind
OneEntryFor(n, kind) ==
    /\ Len(event_log') = Len(event_log) + 1
    /\ SubSeq(event_log', 1, Len(event_log)) = event_log
    /\ event_log'[Len(event_log')].event = n
    /\ event_log'[Len(event_log')].action = kind

\* what the audit entry of a dispatch names as action kind
AuditKind(ev) == IF ev.action.kind = "mcp" THEN "mail_send" ELSE "script"

\* C15: every completed dispatch, by the loop or by fire-now, with any outcome
\* (tool success, tool not found, handler error, script success, script not
\* found, entry point missing), appends exactly one entry to the audit log
\* carrying the event name, the action kind and the status.
C15_DispatchAudited ==
    [][ /\ ((TickFire \/ TickResume) /\ loopPc' = "iter")
              => OneEntryFor(CurEv.name, AuditKind(CurEv))
        /\ ((FireStart \/ FireResume) /\ firePc' = "none" /\ clock' > clock)
              => OneEntryFor(FiredName,
                             AuditKind(IF firePc = "queued"
                                       THEN events[FirstIndex(fireName)]
                                       ELSE fireEv))
      ]_vars

\* C16: when stop() is called while the loop is running, the tick in flight
\* is not interrupted and goes on to dispatch its due events, no further tick
\* begins, and run() eventually ends, provided every dispatch terminates.
C16_CooperativeStop ==
    /\ [][ /\ Stop => UNCHANGED <<loopVars, events, last_fired, cron_fired>>
           /\ ~running => (tickNow' = tickNow \/ tickNow' = 0)
           /\ (~running /\ loopPc = "iter" /\ iterIdx <= CurLen
                 /\ ShouldFire(CurEv, tickNow) /\ loopVars' # loopVars)
                => TickFire
         ]_vars
    /\ (~running /\ loopPc # "init") ~> (loopPc \in {"stopped", "crashed"})

\* stop() has been called while a dispatch of the tick is in flight
C16_Witness ==
    /\ ~running
    /\ loopPc = "dispatch"

\* C17: run(duration) with a duration cap executes at least one tick and
\* returns at the end of the first tick-and-sleep at which the elapsed time is
\* >= duration; a sleep that ends before the cap leads to the next tick;
\* without a cap the loop ends only after stop() was called.
C17_DurationCap ==
    [][ /\ (loopPc # "stopped" /\ loopPc' = "stopped") =>
              \/ ~running
              \/ /\ duration # NoCap
                 /\ loopPc = "sleep"
                 /\ clock' > clock
                 /\ clock' - run_start >= duration
        /\ (loopPc = "sleep" /\ loopPc' = "top") =>
              /\ duration # NoCap
              /\ clock' > clock
              /\ clock' - run_start < duration
        /\ (loopPc = "sleep" /\ duration # NoCap) => loopPc' # "iter"
        /\ loopPc' = "sleep" => clock' > run_start
      ]_vars

\* run(duration) has returned at a sleep that ended exactly `duration` seconds
\* after the start, and stop() was never called
C17_Witness ==
    /\ loopPc = "stopped"
    /\ running
    /\ duration # NoCap
    /\ clock - run_start = duration

\* position of a folder name in sorted order
Rank(n) == CHOOSE i \in 1..Len(NameOrder) : NameOrder[i] = n

\* the manifest is one the loader must accept: the file exists, its header is
\* opened and closed, it has `type`, it has `action` or `script`, and the
\* schedule of a `scheduled` event compiles
Loadable(raw) ==
    /\ raw.md /\ raw.opens /\ raw.closed
    /\ raw.type # ""
    /\ (raw.tool # "" \/ raw.script)
    /\ ~(raw.type = "scheduled"
          /\ raw.sched \notin {"", "every 40 seconds", "every day at 12 AM"})

\* C18: for any set of job folders, load() leaves in the registry exactly the
\* folders whose manifest loads without error, in sorted folder order; a
\* folder whose manifest lacks both `action` and `script`, lacks `type`, has
\* an unclosed header or a schedule that does not compile is skipped and
\* does not prevent any other folder from being loaded.
C18_LoadIsolatesFailures ==
    /\ [][ scan # <<>> =>
             /\ scan' = Tail(scan)
             /\ IF Loadable(Head(scan).raw)
                THEN /\ Len(events') = Len(events) + 1
                     /\ SubSeq(events', 1, Len(events)) = events
                     /\ events'[Len(events')].name = Head(scan).name
                ELSE events' = events
         ]_vars
    /\ [](\A i, j \in 1..Len(events) :
            i < j => Rank(events[i].name) < Rank(events[j].name))

\* the scan is over: the first folder failed to load and the second one is
\* in the registry
C18_Witness ==
    /\ scan = <<>>
    /\ Len(events) = 1
    /\ events[1].name = NameOrder[2]
    /\ loopPc = "init"
    /\ folders = Names

\* C19: for every event, as long as it is not deleted, the successive values
\* written to last_fired[name] by ticks and manual firings never decrease:
\* each write stores a timestamp strictly greater than the one it replaces.
C19_LastFiredIncreases ==
    [][ \A n \in Names :
          (/\ n \in DOMAIN last_fired
           /\ n \in DOMAIN last_fired'
           /\ last_fired'[n] # last_fired[n]
           /\ n \in folders
           /\ adminPc = "idle"
           /\ ~(TickFire /\ ~CurAttached))
          => last_fired'[n] > last_fired[n]
      ]_vars

\* the step writes a new value into last_fired[n]
Writes(n) ==
    /\ n \in DOMAIN last_fired'
    /\ n \notin DOMAIN last_fired \/ last_fired'[n] # last_fired[n]

\* C20 (as the code has it): last_fired[name] is written only by a tick that
\* starts a dispatch of the event, with the tick's timestamp and before the
\* dispatch has run, and by a manual firing whose dispatch has returned
\* without raising, with the time read after that dispatch; the end of a
\* loop dispatch, failed or not, never takes the timestamp back.
C20_LastFiredMeansStarted ==
    [][ /\ \A n \in Names :
             (last_fired' # last_fired /\ Writes(n)) =>
               \/ /\ TickFire
                  /\ CurEv.name = n
                  /\ last_fired'[n] = tickNow
               \/ /\ FireStart \/ FireResume
                  /\ FiredName = n
                  /\ firePc' = "none"
                  /\ clock' > clock
                  /\ last_fired'[n] = clock'
        /\ TickResume => last_fired' = last_fired
      ]_vars

\* a loop dispatch is in flight under its tick's timestamp while another
\* event carries the later timestamp of a completed manual firing
C20_Witness ==
    /\ loopPc = "dispatch"
    /\ CurAttached
    /\ CurEv.name \in DOMAIN last_fired
    /\ last_fired[CurEv.name] = tickNow
    /\ \E m \in DOMAIN last_fired :
          m # CurEv.name /\ last_fired[m] = clock /\ clock > tickNow

\* C20 (as stated): whenever last_fired[name] = t, a dispatch of that event
\* started at t has completed successfully; so no entry equals the timestamp
\* of a tick whose dispatch of that event is still in flight.
C20_LastFiredMeansSuccess ==
    \A n \in DOMAIN last_fired :
        ~ /\ loopPc = "dispatch"
          /\ CurAttached
          /\ CurEv.name = n
          /\ n \in folders
          /\ last_fired[n] = tickNow

\* the name is carried by an ACTIVE Interval event that has never fired
Pending(n) ==
    /\ FirstIndex(n) # 0
    /\ IsActiveInterval(events[FirstIndex(n)])
    /\ n \notin DOMAIN last_fired

\* the loop is alive and has still to evaluate the event: in the tick in
\* progress, or in a later tick for which the wall clock of the model has
\* a reading left
WillEvaluate(n) ==
    /\ loopPc \notin {"stopped", "crashed"}
    /\ \/ \E t \in Times : t > clock
       \/ loopPc = "iter" /\ iterIdx <= FirstIndex(n)
       \/ loopPc = "dispatch" /\ iterIdx < FirstIndex(n)

\* C21: an ACTIVE Interval event with no firing history is dispatched, with
\* no warm-up delay, by the first tick that evaluates it: every tick starts
\* at the head of the registry and the evaluation of such an event is a
\* dispatch stamped with the tick's time; while the loop keeps ticking, such
\* an event is eventually dispatched unless it is deactivated first.
C21_FirstTickFires ==
    /\ [][ /\ TickStart => (iterIdx' = 1 /\ iterLive')
           /\ (loopPc = "iter" /\ iterIdx <= CurLen /\ Pending(CurEv.name)
                 /\ loopVars' # loopVars)
                => /\ TickFire
                   /\ CurEv.name \in DOMAIN last_fired'
                   /\ last_fired'[CurEv.name] = tickNow
           /\ (loopPc = "iter" /\ loopPc' = "iter" /\ iterIdx' # iterIdx)
                => iterIdx' = iterIdx + 1
         ]_vars
    /\ \A n \in Names :
          (Pending(n) /\ WillEvaluate(n))
             ~> (~Pending(n) \/ loopPc \in {"stopped", "crashed"})

\* the second tick has just dispatched, for the first time, the second event
\* of the registry: it was activated after the first tick had passed it
C21_Witness ==
    /\ loopPc = "iter"
    /\ iterIdx = 3
    /\ Len(events) = 2
    /\ IsActiveInterval(events[2])
    /\ events[2].name \in DOMAIN last_fired
    /\ last_fired[events[2].name] = tickNow
    /\ tickNow = 2 * Granule
    /\ events[2].schedule.seconds = 2 * Granule

\* the event is outside the polling loop's reach: not `scheduled`, or
\* `scheduled` with no compiled schedule
Unscheduled(ev) ==
    \/ ev.event_type \in {"manual", "event-triggered"}
    \/ ev.event_type = "scheduled" /\ ev.schedule.kind = "none"

\* C22: is_due is false at every time for an event whose event_type is
\* `manual` or `event-triggered` and for a `scheduled` event with no compiled
\* schedule; the polling loop never dispatches such an event and never
\* stamps it, even when it is ACTIVE.
C22_UnscheduledNeverDispatched ==
    /\ [](\A i \in 1..Len(events) :
            Unscheduled(events[i]) =>
                /\ \A now \in Times : ~IsDue(events[i], now)
                /\ events[i].name \notin DOMAIN last_fired)
    /\ [][ /\ TickFire => ~Unscheduled(CurEv)
           /\ (loopPc = "iter" /\ iterIdx <= CurLen /\ Unscheduled(CurEv)
                 /\ loopVars' # loopVars) => TickSkip
         ]_vars

\* a tick has passed two ACTIVE events, an event-triggered one and a
\* scheduled one without schedule, and has dispatched neither
C22_Witness ==
    /\ loopPc = "iter"
    /\ iterIdx = 3
    /\ Len(events) = 2
    /\ events[1].active /\ events[2].active
    /\ events[1].event_type = "event-triggered"
    /\ events[2].event_type = "scheduled" /\ events[2].schedule.kind = "none"
    /\ last_fired = EmptyDict

\* C23: loop-initiated dispatches never overlap: while a dispatch of the tick
\* is in flight the loop evaluates and stamps no other event, the next step
\* of the loop is the end of that dispatch, after which the tick goes on with
\* the next entry in registry order under the same timestamp; a new tick
\* begins only when the previous tick has returned.
C23_LoopDispatchesSequential ==
    [][ /\ (loopPc = "dispatch" /\ loopVars' # loopVars) =>
              /\ TickResume
              /\ loopPc' \in {"iter", "crashed"}
              /\ loopPc' = "iter" => (iterIdx' = iterIdx + 1 /\ tickNow' = tickNow)
        /\ loopPc = "dispatch" => UNCHANGED <<last_fired, cron_fired>>
        /\ TickFire =>
              /\ loopPc = "iter"
              /\ loopPc' = "dispatch" => iterIdx' = iterIdx
              /\ loopPc' = "iter" => iterIdx' = iterIdx + 1
        /\ (tickNow' # tickNow /\ tickNow' # 0) => loopPc \in {"top", "sleep"}
      ]_vars

\* two events were due in one tick: the dispatch of the second is in flight,
\* the dispatch of the first has ended
C23_Witness ==
    /\ loopPc = "dispatch"
    /\ iterIdx = 2
    /\ Len(events) = 2
    /\ events[1].name \in DOMAIN last_fired
    /\ events[2].name \in DOMAIN last_fired
    /\ last_fired[events[1].name] = tickNow
    /\ last_fired[events[2].name] = tickNow

\* what activate, deactivate and fire-now do when several entries carry the
\* name: they act on the first one and leave the others as they are
FirstMatchOnly ==
    /\ \A n \in Names :
          /\ Activate(n) => (events'[FirstIndex(n)].active /\ OthersKept(n))
          /\ Deactivate(n) => (~events'[FirstIndex(n)].active /\ OthersKept(n))
    /\ FireStart =>
          /\ events' = events
          /\ firePc' = "dispatch" => fireEv' = Held(events[FirstIndex(fireName)])
    /\ FireResume => events' = events

\* C24 (as the code has it): when several registry entries carry the same
\* name, fire-now, activate and deactivate act on the first entry of that
\* name in registry order only and leave the other entries as they are;
\* delete removes every entry of that name and keeps the entries of other
\* names in their order.
C24_DeleteRemovesAllOfName ==
    [][ /\ FirstMatchOnly
        /\ \A n \in Names :
              DeleteFilter(n) =>
                /\ \A i \in 1..Len(events') : events'[i].name # n
                /\ events' = SelectSeq(events, LAMBDA ev : ev.name # n)
      ]_vars

\* two entries carry one name: an activate has set the first one ACTIVE and
\* left the second one INACTIVE
C24_Witness ==
    /\ Len(events) = 2
    /\ events[1].name = events[2].name
    /\ events[1].active
    /\ ~events[2].active
    /\ events[1].schedule # events[2].schedule

\* C24 (as stated): delete, too, acts on the first entry of the name only
\* and leaves the other entries of that name in the registry.
C24_FirstEntryOnly ==
    [][ /\ FirstMatchOnly
        /\ \A n \in Names :
              DeleteFilter(n) =>
                /\ Len(events') = Len(events) - 1
                /\ \A i \in 1..Len(events') :
                      events'[i] = IF i < FirstIndex(n) THEN events[i] ELSE events[i + 1]
      ]_vars

\* C25: a successful create appends exactly one new Event Definition at the
\* end of the registry, INACTIVE and with no firing history (no last_fired
\* entry and no cron bucket under its name), and leaves every existing event,
\* its active flag, last_fired and the cron buckets unchanged.
C25_CreateAppendsFresh ==
    [][ \A c \in CreateCommands :
          Create(c[1], c[2]) =>
            /\ Len(events') = Len(events) + 1
            /\ SubSeq(events', 1, Len(events)) = events
            /\ events'[Len(events')].name = c[1]
            /\ ~events'[Len(events')].active
            /\ UNCHANGED <<last_fired, cron_fired>>
            /\ c[1] \notin DOMAIN last_fired'
            /\ CronKeysOf(cron_fired', c[1]) = {}
      ]_vars

\* C26: call(name, params) on a name that is not registered fails with a
\* tool-not-found error that lists the registered tool names and runs no
\* handler; on a registered name it runs the handler currently registered
\* under that name exactly once on `params` and returns that handler's
\* result, whether the handler is synchronous or asynchronous.
C26_CallInvokesOnce ==
    [][ \A name \in ToolNames, params \in ParamSets :
          CallTool(name, params) =>
            IF name \notin DOMAIN call.tools
            THEN /\ returned'.raised
                 /\ returned'.error = "tool_not_found"
                 /\ returned'.available = DOMAIN call.tools
                 /\ returned'.ran = << >>
            ELSE /\ ~returned'.raised
                 /\ returned'.ran = << Ran(call.tools[name], params) >>
                 /\ returned'.value = ResultOf(call.tools[name], params)
      ]_vars

\* the text is, in full, `every N seconds|minutes|hours`
WholeInterval(toks) == MatchInterval(toks) /\ Len(toks) = 3

\* C27: every Interval rule produced by compile has a positive number of
\* seconds: for every accepted text `every N seconds|minutes|hours` (N any
\* non-negative integer literal) and for `every hour`, the result is
\* Interval{seconds = N * unit} with seconds >= 1.
C27_IntervalPositive ==
    (returned.done /\ returned.ok /\ returned.rule.kind = "interval") =>
        /\ returned.rule.seconds >= 1
        /\ WholeInterval(call.text) =>
              returned.rule.seconds = call.text[2].v * UnitSeconds(call.text[3].s)
        /\ MatchEveryHour(call.text) => returned.rule.seconds = SecondsPerHour

\* C28: for every text that compile accepts as a cron phrasing, the compiled
\* minute field is in 0..59, the compiled hour field is in 0..23 and every
\* day-of-week value is in 0..6 with Sunday = 0.
C28_CronFieldsInRange ==
    (returned.done /\ returned.ok /\ returned.rule.kind = "cron") =>
        LET FieldValues(field) ==
                { field[i].a : i \in { j \in 1..Len(field) : field[j].t = "num" } }
        IN
        /\ FieldValues(returned.rule.cron[1]) \subseteq 0..59
        /\ FieldValues(returned.rule.cron[2]) \subseteq 0..23
        /\ FieldValues(returned.rule.cron[5]) \subseteq 0..6
        /\ (MatchDow(call.text) /\ call.text[2] = W("sunday"))
              => returned.rule.cron[5] = << Num(0) >>

\* C29: for every input text, compile either returns the rule of the first
\* recognized form the whole text is an instance of, or fails with a
\* schedule syntax error; it never returns a rule for a text that is not in
\* full an instance of one of the six recognized forms.
C29_WholeTextOrError ==
    LET toks == Synonyms(call.text)
        InFull == \/ WholeInterval(toks)
                  \/ MatchEveryHour(toks)
                  \/ MatchDow(toks)
                  \/ MatchEveryDay(toks)
                  \/ MatchDowList(toks)
                  \/ MatchFirstDay(toks)
    IN  returned.done =>
            /\ returned.ok => InFull
            /\ InFull => returned.ok

\* the expansion of a field: `*` is the field's full legal range, `a-b` the
\* inclusive range, `base/step` every step-th value from base (the field
\* minimum for `*`) up to the field maximum, a number itself, and a comma
\* list the union of its parts
Expansion(field, lo, hi) ==
    LET ExpandPart(part) ==
            IF part.t = "star" THEN { x \in lo..hi : TRUE }
            ELSE IF part.t = "range"
            THEN { x \in 0..99 : part.a <= x /\ x <= part.b }
            ELSE IF part.t = "step"
            THEN LET base == IF part.a = -1 THEN lo ELSE part.a
                 IN  { base + k * part.b : k \in 0..hi } \cap { x \in 0..99 : x <= hi }
            ELSE { part.a }
    IN  { x \in 0..99 : \E i \in 1..Len(field) : x \in ExpandPart(field[i]) }

\* C30: matches(cron, t) is true exactly when t's minute, hour, day of
\* month, month and day of week (converted from Monday = 0 to Sunday = 0)
\* each belong to the expansion of the corresponding field; for `0 9 * * 1`
\* it is true on Monday 09:00 and false on Monday 09:01 and Tuesday 09:00.
C30_MatchesIsFieldMembership ==
    LET MondayAtNine ==
            << << Num(0) >>, << Num(9) >>, << Star >>, << Star >>, << Num(1) >> >>
    IN
    returned.done =>
        /\ returned.value <=>
              /\ Minute(call.dt) \in Expansion(call.cron[1], 0, 59)
              /\ Hour(call.dt) \in Expansion(call.cron[2], 0, 23)
              /\ Day(call.dt) \in Expansion(call.cron[3], 1, 31)
              /\ Month(call.dt) \in Expansion(call.cron[4], 1, 12)
              /\ (IF Weekday(call.dt) = 6 THEN 0 ELSE Weekday(call.dt) + 1)
                    \in Expansion(call.cron[5], 0, 6)
        /\ (call.cron = MondayAtNine /\ call.dt = 9 * SecondsPerHour)
              => returned.value
        /\ (call.cron = MondayAtNine
              /\ call.dt \in { 9 * SecondsPerHour + SecondsPerMinute,
                                9 * SecondsPerHour + SecondsPerDay })
              => ~returned.value

\* `0 9 * * 1` has been matched against Monday 1 January 09:00:00 and found
\* to match
C30_Witness ==
    /\ returned.done
    /\ returned.value
    /\ call.cron = << << Num(0) >>, << Num(9) >>, << Star >>, << Star >>, << Num(1) >> >>
    /\ call.dt = 9 * SecondsPerHour

\* C31: the parameters a ToolCall handler receives at every dispatch are the
\* values resolved at load time plus `_event_name`, also after the
\* referenced file has changed on disk; no dispatch modifies the event's
\* stored resolved_params (`_event_name` is never added to it).
C31_DispatchUsesLoadTimeParams ==
    LET at_load == [k \in DOMAIN call.raw |-> ResolveValue(call.raw[k], call.at_load)]
    IN  /\ call.loaded = "yes" =>
              /\ call.resolved = at_load
              /\ "_event_name" \notin DOMAIN call.resolved
        /\ returned.done =>
              /\ DOMAIN returned.params = DOMAIN call.raw \cup {"_event_name"}
              /\ \A k \in DOMAIN call.raw : returned.params[k] = at_load[k]
              /\ returned.params["_event_name"].lines = <<"a">>

\* the handler was called with the list read from to.txt at load time after
\* the file had got other contents
C31_Witness ==
    /\ returned.done
    /\ call.raw.to.path = << <<"to", ".txt">> >>
    /\ returned.params.to.k = "list"
    /\ << <<"a">>, <<"to", ".txt">> >> \in DOMAIN returned.seen
    /\ ResolveValue(call.raw.to, returned.seen) # returned.params.to

\* C32: a parameter value is replaced by file contents only when it resolves
\* to an existing file inside the job's own folder; a value that resolves to
\* an existing path outside it (through `..`, or in a sibling folder whose
\* name begins with the job folder's name) is passed through verbatim.
C32_OnlyInFolderFilesRead ==
    call.loaded = "yes" =>
        LET v == call.raw.to
            inside == { p \in DOMAIN call.at_load : p[1] = <<"a">> }
            target ==
                IF v.k # "str" \/ v.path = << >> THEN << >>
                ELSE IF v.path[1] = <<"..">> THEN Tail(v.path)
                ELSE IF Len(v.path) = 3 THEN << <<"a">>, v.path[3] >>
                ELSE << <<"a">> >> \o v.path
        IN  /\ call.resolved.to.k \in {"list", "text"} => target \in inside
            /\ target \notin inside => call.resolved.to = v


\* C33: a manual fire-now dispatches the named event whether it is ACTIVE
\* or INACTIVE and leaves the `active` flag of that event and of every other
\* event unchanged, so an INACTIVE event fired manually is still never
\* dispatched by the loop afterwards. (A firing that returns reads the wall
\* clock, so the first conjunct asks for a reading the model has left.)
C33_FireNowIgnoresActive ==
    [][ /\ (firePc = "queued" /\ LoopThreadIdle /\ FirstIndex(fireName) # 0
              /\ \E t \in Times : t > clock)
              => ENABLED FireStart
        /\ (FireStart \/ FireResume)
              => \A i \in 1..Len(events) :
                    /\ Len(events') = Len(events)
                    /\ events'[i].active = events[i].active
        /\ TickFire => CurEv.active
      ]_vars

\* the loop has passed over an INACTIVE event, due by its schedule, whose
\* manual dispatch is in flight
C33_Witness ==
    /\ firePc = "dispatch"
    /\ FirstIndex(fireEv.name) # 0
    /\ ~events[FirstIndex(fireEv.name)].active
    /\ fireEv.name \notin DOMAIN last_fired
    /\ events[FirstIndex(fireEv.name)].schedule.kind = "interval"
    /\ loopPc = "iter"
    /\ iterIdx > FirstIndex(fireEv.name)

\* C34: a manual fire-now never reads or writes cron_fired_this_minute:
\* when an ACTIVE Cron event is fired manually during a matching minute in
\* which the loop has not yet fired it, the loop still dispatches it in that
\* same minute, so the event is dispatched twice within one matching minute.
C34_FireNowBypassesMinuteBucket ==
    [][ /\ (firePc' # firePc) => cron_fired' = cron_fired
        /\ (/\ loopPc = "iter"
            /\ iterIdx <= CurLen
            /\ CurEv.active
            /\ CurEv.event_type = "scheduled"
            /\ CurEv.schedule.kind = "cron"
            /\ CronMatches(CurEv.schedule.cron, tickNow)
            /\ <<CurEv.name, MinuteKey(tickNow)>> \notin cron_fired
            /\ (iterIdx' # iterIdx \/ loopPc' # loopPc))
           => /\ TickFire
              /\ <<CurEv.name, MinuteKey(tickNow)>> \in cron_fired'
              /\ last_fired'[CurEv.name] = tickNow
      ]_vars

\* the loop's dispatch of a Cron event, started by a tick of a matching
\* minute, is in flight, and a manual firing of the event has returned later
\* in that minute
C34_Witness ==
    /\ loopPc = "dispatch"
    /\ firePc = "none"
    /\ CurEv.active
    /\ CurEv.schedule.kind = "cron"
    /\ CurEv.name \in DOMAIN cron_loop
    /\ cron_loop[CurEv.name] = [minute |-> MinuteKey(tickNow), count |-> 1]
    /\ CurEv.name \in DOMAIN last_fired
    /\ last_fired[CurEv.name] = clock
    /\ tickNow < clock
    /\ MinuteKey(clock) = MinuteKey(tickNow)

\* C35: the minute bucket of a Cron event is marked only when the loop
\* evaluates it while ACTIVE and the minute matches: ticks over an INACTIVE
\* event never mark its bucket, so a Cron event activated in the middle of a
\* matching minute is dispatched by the next tick in that minute.
C35_InactiveTicksLeaveBucket ==
    [][ /\ cron_fired' # cron_fired =>
              /\ TickFire
              /\ CurEv.active
              /\ CurEv.schedule.kind = "cron"
              /\ CronMatches(CurEv.schedule.cron, tickNow)
              /\ cron_fired' = cron_fired \cup { <<CurEv.name, MinuteKey(tickNow)>> }
        /\ (/\ loopPc = "iter"
            /\ iterIdx <= CurLen
            /\ CurEv.active
            /\ CurEv.event_type = "scheduled"
            /\ CurEv.schedule.kind = "cron"
            /\ CronMatches(CurEv.schedule.cron, tickNow)
            /\ ~(CurEv.name \in DOMAIN cron_loop
                   /\ cron_loop[CurEv.name].minute = MinuteKey(tickNow))
            /\ (iterIdx' # iterIdx \/ loopPc' # loopPc))
           => /\ TickFire
              /\ cron_loop'[CurEv.name] = [minute |-> MinuteKey(tickNow), count |-> 1]
      ]_vars

\* a tick of a matching minute has fired the second event of the registry
\* and passed over the first, a Cron event that was INACTIVE then; a later
\* tick of the same minute is dispatching the Cron event
C35_Witness ==
    /\ loopPc \in {"iter", "dispatch"}
    /\ Len(events) = 2
    /\ events[1].active
    /\ events[1].schedule.kind = "cron"
    /\ events[1].name \in DOMAIN last_fired
    /\ events[2].name \in DOMAIN last_fired
    /\ last_fired[events[1].name] = tickNow
    /\ last_fired[events[2].name] < tickNow
    /\ MinuteKey(last_fired[events[2].name]) = MinuteKey(tickNow)
    /\ events[1].name \in DOMAIN cron_loop
    /\ cron_loop[events[1].name] = [minute |-> MinuteKey(tickNow), count |-> 1]

\* C36 (as the code has it): two ACTIVE Interval events that share one name
\* share one last_fired entry, and in every tick the first of them in
\* registry order is evaluated first; while the first stays ACTIVE the loop
\* dispatches the second only in a tick that found the first not due, which
\* takes a second event whose interval is shorter than the first's: with
\* intervals S1 <= S2 the loop never dispatches the second.
C36_SecondFiresOnlyWhenFirstNotDue ==
    [][ (TickFire /\ iterIdx = 2 /\ events[1].name = events[2].name
           /\ events[1].active)
          => /\ events[2].schedule.seconds < events[1].schedule.seconds
             /\ events[1].name \in DOMAIN last_fired
             /\ tickNow - last_fired[events[1].name] < events[1].schedule.seconds
             /\ tickNow - last_fired[events[1].name] >= events[2].schedule.seconds
      ]_vars

\* the first event, every 40 seconds, fired at one tick; the tick 20 seconds
\* later found it not due and is dispatching the second, every 20 seconds
C36_Witness ==
    /\ loopPc = "dispatch"
    /\ iterIdx = 2
    /\ events[1].active
    /\ events[1].name = events[2].name
    /\ events[1].schedule.seconds = 2 * Granule
    /\ events[2].schedule.seconds = Granule
    /\ last_fired[events[2].name] = tickNow
    /\ tickNow = 2 * Granule

\* C36 (as stated): when two ACTIVE Interval events with interval >= 1
\* second share one name, the loop never dispatches the second one as long
\* as the first stays ACTIVE and in the registry.
C36_SecondNeverDispatched ==
    [][ ~(TickFire /\ iterIdx = 2 /\ events[1].name = events[2].name
            /\ events[1].active) ]_vars

\* C37: stop() takes effect only on a loop that has already started: a
\* stop() issued before run() begins is overwritten when run() sets `running`
\* to true, and the loop then ticks until a later stop() or the duration cap.
C37_EarlyStopOverwritten ==
    /\ [][ /\ call' # call =>
                /\ ~running /\ ~running'
                /\ UNCHANGED <<loopVars, events, last_fired, cron_fired>>
           /\ (loopPc = "init" /\ loopPc' # "init") =>
                /\ running'
                /\ loopPc' = "top"
           /\ (call.fn = "stop" /\ loopPc \in {"top", "sleep"} /\ running
                 /\ loopPc' # loopPc) =>
                \/ loopPc' = "iter"
                \/ /\ duration # NoCap
                   /\ loopPc = "sleep"
                   /\ loopPc' = IF clock' - run_start >= duration
                                THEN "stopped" ELSE "top"
         ]_vars
    /\ (call.fn = "stop" /\ loopPc = "init")
          ~> (loopPc = "iter" \/ (~running /\ loopPc # "init"))

\* stop() was called before run(), stop() was not called again, and the
\* loop is in a later tick than the one that dispatched
C37_Witness ==
    /\ call.fn = "stop"
    /\ running
    /\ loopPc = "iter"
    /\ \E n \in DOMAIN last_fired : last_fired[n] < tickNow

\* C38: a fire-now request whose caller gives up at the bounded timeout is
\* not cancelled: giving up leaves the submitted coroutine, the registry and
\* last_fired as they are; the coroutine can still run whenever the loop
\* thread is free, it ends only by running, and when its dispatch returns it
\* writes last_fired[name] with the time of its end, later than the time the
\* caller gave up at, while the caller's outcome stays the failure.
C38_GivenUpFiringTakesEffect ==
    [][ /\ (fireResult = "waiting" /\ fireResult' = "timeout") =>
             /\ firePc \in {"queued", "dispatch"}
             /\ UNCHANGED <<fireVars, events, last_fired, cron_fired, event_log>>
        /\ (fireResult = "timeout" /\ firePc # "none") =>
             /\ fireResult' = "timeout"
             /\ (LoopThreadIdle /\ Len(event_log) < MaxLog
                   /\ \E t \in Times : t > clock)
                  => ENABLED (FireNotFound \/ FireStart \/ FireResume)
             /\ firePc' = "none" =>
                  LET found == firePc = "dispatch" \/ FirstIndex(fireName) # 0
                      ev == IF firePc = "dispatch" THEN fireEv
                            ELSE events[FirstIndex(fireName)]
                  IN  \/ /\ found
                         /\ last_fired' = Put(last_fired, FiredName, clock')
                         /\ clock' > call.gave_up_at
                      \/ /\ ~found \/ ev.action.kind = "script"
                         /\ UNCHANGED last_fired
      ]_vars

\* the caller of fire_event_now(name) gave up, the coroutine it had submitted
\* has ended since, and last_fired[name] holds a time later than the caller's
\* giving up that no tick of the loop has written
C38_Witness ==
    /\ call # NoCall
    /\ fireResult = "timeout"
    /\ firePc = "none"
    /\ call.name \in DOMAIN last_fired
    /\ last_fired[call.name] > call.gave_up_at
    /\ last_fired[call.name] > tickNow

\* C39: all events dispatched by one tick receive the same last_fired value,
\* the timestamp taken once at the start of the tick, whatever the duration
\* of the dispatches that ran earlier in that tick; due-ness of every event
\* in the tick is decided against that one timestamp.
C39_OneTimestampPerTick ==
    [][ /\ (loopPc \in {"top", "sleep"} /\ loopPc' = "iter") =>
             tickNow' = clock'
        /\ (loopPc \in {"iter", "dispatch"} /\ loopPc' \in {"iter", "dispatch"}) =>
             tickNow' = tickNow
        /\ (loopPc = "iter" /\ iterIdx <= CurLen
              /\ <<loopPc, iterIdx>>' # <<loopPc, iterIdx>>) =>
             IF CurEv.active /\ IsDue(CurEv, tickNow)
             THEN last_fired' = Put(last_fired, CurEv.name, tickNow)
             ELSE /\ UNCHANGED last_fired
                  /\ loopPc' = "iter"
                  /\ iterIdx' = iterIdx + 1
      ]_vars

\* the clock has passed the tick's timestamp while the dispatch of the first
\* event was suspended (a manual firing ended then), and the second event,
\* whose dispatch never suspends, has been stamped with the tick's timestamp
\* afterwards
C39_Witness ==
    /\ loopPc = "iter"
    /\ Len(events) = 2
    /\ iterIdx = 3
    /\ events[2].action.kind = "mcp"
    /\ events[2].action.target \notin RegisteredTools
    /\ events[2].name \in DOMAIN last_fired
    /\ last_fired[events[2].name] = tickNow
    /\ clock > tickNow

====
